---- MODULE Spec2Model ----
(***************************************************************************)
(* A model of the Wanderer (Albay) tourism application: the itinerary      *)
(* read-modify-write handlers, the preference scorers and recommenders,    *)
(* the CSV bulk importer and the onboarding wizard.                        *)
(***************************************************************************)
EXTENDS Integers, Sequences, FiniteSets, TLC

VARIABLES
  itineraries,   \* table "itineraries" of one user, in created_at order
  nextItinId,    \* next fresh itinerary id
  tab,           \* per browser tab: the add-to-itinerary handler in flight
  started,       \* number of itinerary operations started so far
  recKind,       \* the recommender component that is mounted
  preferences,   \* the user's preferences record (profile / props)
  table,         \* rows of tourist_spots or accommodations, as fetched
  scoredRows,    \* the handler's local scoredSpots / scoredAccommodations
  shownRows,     \* the component's spots / accommodations state
  recToast,      \* the recommender's last notification
  recOutcome,    \* the path the fetch handler took
  recLoading,    \* loading / fetchingSpots / fetchingAccommodations
  csvFile,       \* the rows of the uploaded file, before serialisation
  csvData,       \* the records parseCSV returned
  csvParsed,     \* whether parseCSV has returned
  importRows,    \* number of records of the file being imported
  importTable,   \* tableName of the import in progress
  selectedType,  \* BulkImport: the selected data type
  importing,     \* BulkImport: importing flag
  importPc,      \* position of handleFileUpload
  importIdx,     \* loop variable i of the batch loop
  successCount,  \* records of the batches inserted
  errorCount,    \* records of the batches rejected
  persistedRows, \* records present in the target table
  insertLog,     \* insert requests issued, in order
  importToast,   \* BulkImport: last notification
  wizVariant,    \* which OnboardingModal is mounted
  step,          \* OnboardingModal: step
  wizLoading,    \* OnboardingModal: loading
  wizPreferences, \* OnboardingModal: preferences
  wizOpen,       \* whether the modal is shown
  wizPayload,    \* the profile update in flight
  profile,       \* the user's profiles row
  wizToast,      \* OnboardingModal: last notification
  selectionToast,    \* post-onboarding selection modal: last notification
  selectionRequests, \* insert requests the selection modal has sent
  newUser,       \* UserManagement: the create-user form
  isCreateDialogOpen, \* UserManagement: the create-user dialog is open
  isCreating,    \* UserManagement: isCreating
  createRequest, \* the admin-create-user request in flight
  accounts,      \* e-mail addresses of the accounts created
  userToast,     \* UserManagement: last notification
  session,       \* whether a user is signed in
  userRoleRows,  \* roles of the user's rows in user_roles
  navIsAdmin,    \* Navbar.isAdmin
  navChecks,     \* Navbar role queries in flight
  dashIsAdmin,   \* AdminDashboard.isAdmin
  dashIsLoading, \* AdminDashboard.isLoading
  dashChecks,    \* AdminDashboard role queries in flight
  route,         \* the page shown where the admin dashboard was opened
  authEvents,    \* auth and role changes so far
  catalog,       \* tourist_spots / accommodations: the name of each entity
  rvUser,        \* the user signed in on the spot page, or "none"
  rvSession,     \* SpotDetail.session: "null" until the session load returns
  rvSessionLoaded, \* getSession has returned
  rvSpot,        \* SpotDetail.spot: "loading", "loaded" or "failed"
  storedReviews, \* users with a stored review of the displayed spot
  reviewFetch,   \* the fetchReviews call in flight and the session it captured
  reviewOutcome, \* how the last fetchReviews ended
  reviews,       \* SpotDetail.reviews, as the set of their authors
  userHasReviewed, \* SpotDetail.userHasReviewed
  reviewRefreshTrigger, \* SpotDetail.reviewRefreshTrigger
  cleanType, \* the table the record is cleaned for
  cleanItem, \* one parsed CSV record: rating, latitude, longitude
  cleanedRecord, \* the record handleFileUpload builds from it
  cleanDone, \* the record has been built
  pickKind, \* which post-onboarding modal is open: "favorites", "spotItinerary", "accItinerary"
  prefsVersion, \* how many preferences objects the modal has been given
  fetchesInFlight, \* the preferences versions whose fetch has not returned
  modalSpots, \* spots / accommodations: the displayed ids, in rank order
  shownVersion, \* the preferences version the displayed list was computed from
  selectedSpots, \* selectedSpots / selectedAccommodations
  fetchingSpots, \* fetchingSpots / fetchingAccommodations
  modalLoading, \* loading of the save handler
  saveRequest, \* the insert request of the save handler in flight
  savedItems, \* the ids stored by the last accepted insert
  reportedCount, \* the count in the success notification, -1 before any
  storedRoles, \* user_roles: rows (user_id, role) in the order a select returns them
  userRoles, \* UserManagement.userRoles
  usersLoading, \* UserManagement.isLoading: fetchUsers is running
  deactivateToast \* the notification of handleDeactivateUser

itinVars == <<itineraries, nextItinId, tab, started>>

recVars ==
  <<recKind, preferences, table, scoredRows, shownRows, recToast, recOutcome,
    recLoading>>

csvVars == <<csvFile, csvData, csvParsed>>

importVars ==
  <<importRows, importTable, selectedType, importing, importPc, importIdx,
    successCount, errorCount, persistedRows, insertLog, importToast>>

wizVars ==
  <<wizVariant, step, wizLoading, wizPreferences, wizOpen, wizPayload, profile,
    wizToast>>

modalVars == <<selectionToast, selectionRequests>>

userVars ==
  <<newUser, isCreateDialogOpen, isCreating, createRequest, accounts, userToast>>

roleVars ==
  <<session, userRoleRows, navIsAdmin, navChecks, dashIsAdmin, dashIsLoading,
    dashChecks, route, authEvents>>

\* the groups added after the first five
catalogVars == <<catalog>>

reviewVars ==
  <<rvUser, rvSession, rvSessionLoaded, rvSpot, storedReviews, reviewFetch,
    reviewOutcome, reviews, userHasReviewed, reviewRefreshTrigger>>

cleanVars ==
  <<cleanType, cleanItem, cleanedRecord, cleanDone>>

pickVars ==
  <<pickKind, prefsVersion, fetchesInFlight, modalSpots, shownVersion, selectedSpots, fetchingSpots, modalLoading, saveRequest, savedItems, reportedCount>>

deactVars ==
  <<storedRoles, userRoles, usersLoading, deactivateToast>>

laterVars ==
  <<modalVars, userVars, roleVars, catalogVars, reviewVars, cleanVars,
    pickVars, deactVars>>

notItinVars == <<recVars, csvVars, importVars, wizVars, laterVars>>

notRecVars == <<itinVars, csvVars, importVars, wizVars, laterVars>>

notCsvVars == <<itinVars, recVars, importVars, wizVars, laterVars>>

notImportVars == <<itinVars, recVars, csvVars, wizVars, laterVars>>

notWizVars == <<itinVars, recVars, csvVars, importVars, laterVars>>

notUserVars ==
  <<itinVars, recVars, csvVars, importVars, wizVars, modalVars, roleVars,
    catalogVars, reviewVars, cleanVars, pickVars, deactVars>>

notRoleVars ==
  <<itinVars, recVars, csvVars, importVars, wizVars, modalVars, userVars,
    catalogVars, reviewVars, cleanVars, pickVars, deactVars>>

notCatalogVars ==
  <<itinVars, recVars, csvVars, importVars, wizVars, modalVars, userVars,
    roleVars, reviewVars, cleanVars, pickVars, deactVars>>

notReviewVars ==
  <<itinVars, recVars, csvVars, importVars, wizVars, modalVars, userVars,
    roleVars, catalogVars, cleanVars, pickVars, deactVars>>

vars == <<itinVars, recVars, csvVars, importVars, wizVars, laterVars>>

notCleanVars ==
  <<itinVars, recVars, csvVars, importVars, wizVars, modalVars, userVars,
    roleVars, catalogVars, reviewVars, pickVars, deactVars>>

notPickVars ==
  <<itinVars, recVars, csvVars, importVars, wizVars, modalVars, userVars,
    roleVars, catalogVars, reviewVars, cleanVars, deactVars>>

notDeactVars ==
  <<itinVars, recVars, csvVars, importVars, wizVars, modalVars, userVars,
    roleVars, catalogVars, reviewVars, cleanVars, pickVars>>

-----------------------------------------------------------------------------
(* Bounds *)

NumTabs == 2
MaxOps == 2

Tabs == 1..NumTabs
Entities == {1, 2}

-----------------------------------------------------------------------------
(* String helpers (JavaScript String.prototype semantics) *)

IsSpace(ch) == ch \in {" ", "\t", "\r", "\n"}

RECURSIVE TrimStart(_)
TrimStart(s) ==
  IF Len(s) > 0 /\ IsSpace(SubSeq(s, 1, 1)) THEN TrimStart(SubSeq(s, 2, Len(s))) ELSE s

RECURSIVE TrimEnd(_)
TrimEnd(s) ==
  IF Len(s) > 0 /\ IsSpace(SubSeq(s, Len(s), Len(s)))
  THEN TrimEnd(SubSeq(s, 1, Len(s) - 1)) ELSE s

Trim(s) == TrimEnd(TrimStart(s))

UpperLetters == "ABCDEFGHIJKLMNOPQRSTUVWXYZ"
LowerLetters == "abcdefghijklmnopqrstuvwxyz"

LowerChar(ch) ==
  LET hits == {i \in 1..Len(UpperLetters) : SubSeq(UpperLetters, i, i) = ch}
  IN IF hits = {} THEN ch
     ELSE LET i == CHOOSE k \in hits : TRUE IN SubSeq(LowerLetters, i, i)

RECURSIVE ToLowerCase(_)
ToLowerCase(s) ==
  IF Len(s) = 0 THEN ""
  ELSE LowerChar(SubSeq(s, 1, 1)) \o ToLowerCase(SubSeq(s, 2, Len(s)))

\* String.prototype.includes
Includes(s, sub) ==
  \E i \in 1..(Len(s) - Len(sub) + 1) : SubSeq(s, i, i + Len(sub) - 1) = sub

\* Array.prototype.join
RECURSIVE Join(_, _)
Join(list, sep) ==
  IF Len(list) = 0 THEN ""
  ELSE IF Len(list) = 1 THEN list[1]
  ELSE list[1] \o sep \o Join(Tail(list), sep)

Min(a, b) == IF a < b THEN a ELSE b

\* Array.prototype.slice(0, n)
SliceInclusive(seq, n) == SubSeq(seq, 1, Min(n + 1, Len(seq)))
Slice(seq, n) == SubSeq(seq, 1, Min(n, Len(seq)))

-----------------------------------------------------------------------------
(* JavaScript values of the preference and entity fields *)

JNull == [t |-> "null", s |-> "", l |-> <<>>, n |-> 0]
JUndef == [t |-> "undef", s |-> "", l |-> <<>>, n |-> 0]
JStr(x) == [t |-> "str", s |-> x, l |-> <<>>, n |-> 0]
JList(x) == [t |-> "list", s |-> "", l |-> x, n |-> 0]
JBool(b) == [t |-> "bool", s |-> "", l |-> <<>>, n |-> IF b THEN 1 ELSE 0]
\* a rating, held in tenths (45 is 4.5)
JNum(k) == [t |-> "num", s |-> "", l |-> <<>>, n |-> k]

Truthy(v) ==
  CASE v.t = "str" -> v.s # ""
    [] v.t = "list" -> TRUE
    [] v.t = "bool" -> v.n = 1
    [] v.t = "num" -> v.n # 0
    [] OTHER -> FALSE

\* v === "literal"
IsStr(v, x) == v.t = "str" /\ v.s = x

\* a === b
StrictEquals(a, b) == a.t = b.t /\ a.s = b.s /\ a.l = b.l /\ a.n = b.n

\* list.some(c => words.some(w => c.toLowerCase().includes(w)))
SomeLowerIncludes(v, words) ==
  \E i \in 1..Len(v.l) : \E w \in words : Includes(ToLowerCase(v.l[i]), w)

-----------------------------------------------------------------------------
(* Itineraries: AddToItineraryDialog, SpotDetail, MyItinerary *)

ItineraryNames == {"", " ", "Trip"}

IdleTab ==
  [pc |-> "idle", item |-> 0, itemName |-> "", itineraryId |-> 0,
   updatedSpots |-> <<>>, loading |-> FALSE, toast |-> "none", updates |-> 0,
   name |-> ""]

\* an entry that only refers to the catalog row
EntryByReference(e, via, name) == [id |-> e, via |-> via, name |-> ""]

\* the object put into the list: { id: itemId, name: itemName, ... }, the
\* spot object of the detail page, a row of the modal's spots
Entry(e, via, name) == [id |-> e, via |-> via, name |-> name]

\* currentSpots.some(spot => spot.id === itemId)
ExistsLastOnly(spots, id) == Len(spots) > 0 /\ spots[Len(spots)].id = id
Exists(spots, id) == \E i \in 1..Len(spots) : spots[i].id = id

\* rows of the table with the given id (.eq("id", itineraryId))
RowsWithId(id) == {i \in 1..Len(itineraries) : itineraries[i].id = id}

RowOf(id) == CHOOSE i \in RowsWithId(id) : TRUE

\* .update({ spots }).eq("id", id): rewrites the matching row, if any
UpdateSpotsAppend(id, spots) ==
  [i \in 1..Len(itineraries) |->
     IF itineraries[i].id = id
     THEN [itineraries[i] EXCEPT !.spots = @ \o <<spots[Len(spots)]>>]
     ELSE itineraries[i]]
\* an update without the .eq("id", id) filter
UpdateSpotsEveryRow(id, spots) ==
  [i \in 1..Len(itineraries) |-> [itineraries[i] EXCEPT !.spots = spots]]
\* an update that keeps the stored entries missing from the written list
UpdateSpotsMerge(id, spots) ==
  [i \in 1..Len(itineraries) |->
     IF itineraries[i].id = id
     THEN [itineraries[i] EXCEPT !.spots =
             SelectSeq(@, LAMBDA x : ~Exists(spots, x.id)) \o spots]
     ELSE itineraries[i]]
UpdateSpots(id, spots) ==
  [i \in 1..Len(itineraries) |->
     IF itineraries[i].id = id THEN [itineraries[i] EXCEPT !.spots = spots]
     ELSE itineraries[i]]

InsertItinerary(name, spots) ==
  Append(itineraries, [id |-> nextItinId, name |-> name, spots |-> spots])

\* AddToItineraryDialog.handleAddToItinerary up to its first request
DialogBegin(c, mode, sel, name, e) ==
  /\ tab[c].pc = "idle"
  /\ catalog[e] # "deleted"
  /\ started < MaxOps
  /\ started' = started + 1
  /\ mode = "select" => sel \in {itineraries[i].id : i \in 1..Len(itineraries)}
  /\ mode = "create" => sel = 0
  /\ IF mode = "create" /\ Trim(name) = ""
     THEN tab' = [tab EXCEPT ![c] =
            [IdleTab EXCEPT !.item = e, !.itemName = catalog[e],
                            !.toast = "enter-name"]]
     ELSE IF mode = "create"
     THEN tab' = [tab EXCEPT ![c] =
            [IdleTab EXCEPT !.pc = "d_insert", !.item = e,
                            !.itemName = catalog[e], !.name = name,
                            !.loading = TRUE]]
     ELSE tab' = [tab EXCEPT ![c] =
            [IdleTab EXCEPT !.pc = "d_fetch", !.item = e,
                            !.itemName = catalog[e], !.itineraryId = sel,
                            !.loading = TRUE]]
  /\ UNCHANGED <<itineraries, nextItinId>>
  /\ UNCHANGED notItinVars

\* the insert of the new itinerary returns
DialogInsert(c, ok) ==
  /\ tab[c].pc = "d_insert"
  /\ IF ok
     THEN /\ itineraries' = InsertItinerary(tab[c].name, <<>>)
          /\ nextItinId' = nextItinId + 1
          /\ tab' = [tab EXCEPT ![c].pc = "d_fetch", ![c].itineraryId = nextItinId]
     ELSE /\ tab' = [tab EXCEPT ![c].pc = "idle", ![c].loading = FALSE,
                                ![c].toast = "failed"]
          /\ UNCHANGED <<itineraries, nextItinId>>
  /\ UNCHANGED started
  /\ UNCHANGED notItinVars

\* a duplicate exit that returns without setLoading(false)
DialogFetchKeepsLoading(c, ok) ==
  /\ tab[c].pc = "d_fetch"
  /\ IF ~ok \/ RowsWithId(tab[c].itineraryId) = {}
     THEN tab' = [tab EXCEPT ![c].pc = "idle", ![c].loading = FALSE,
                             ![c].toast = "failed"]
     ELSE LET currentSpots == itineraries[RowOf(tab[c].itineraryId)].spots
              itemData == Entry(tab[c].item, "dialog", tab[c].itemName)
          IN IF Exists(currentSpots, tab[c].item)
             THEN tab' = [tab EXCEPT ![c].pc = "idle", ![c].toast = "already"]
             ELSE tab' = [tab EXCEPT ![c].pc = "d_update",
                                     ![c].updatedSpots = Append(currentSpots, itemData),
                                     ![c].updates = @ + 1]
  /\ UNCHANGED <<itineraries, nextItinId, started>>
  /\ UNCHANGED notItinVars

\* the select of the current list returns; duplicate check; update issued
DialogFetch(c, ok) ==
  /\ tab[c].pc = "d_fetch"
  /\ IF ~ok \/ RowsWithId(tab[c].itineraryId) = {}
     THEN tab' = [tab EXCEPT ![c].pc = "idle", ![c].loading = FALSE,
                             ![c].toast = "failed"]
     ELSE LET currentSpots == itineraries[RowOf(tab[c].itineraryId)].spots
              itemData == Entry(tab[c].item, "dialog", tab[c].itemName)
          IN IF Exists(currentSpots, tab[c].item)
             THEN tab' = [tab EXCEPT ![c].pc = "idle", ![c].loading = FALSE,
                                     ![c].toast = "already"]
             ELSE tab' = [tab EXCEPT ![c].pc = "d_update",
                                     ![c].updatedSpots = Append(currentSpots, itemData),
                                     ![c].updates = @ + 1]
  /\ UNCHANGED <<itineraries, nextItinId, started>>
  /\ UNCHANGED notItinVars

\* the update returns
DialogUpdate(c, ok) ==
  /\ tab[c].pc = "d_update"
  /\ IF ok
     THEN /\ itineraries' = UpdateSpots(tab[c].itineraryId, tab[c].updatedSpots)
          /\ tab' = [tab EXCEPT ![c].pc = "idle", ![c].loading = FALSE,
                                ![c].toast = "added", ![c].name = ""]
     ELSE /\ tab' = [tab EXCEPT ![c].pc = "idle", ![c].loading = FALSE,
                                ![c].toast = "failed"]
          /\ UNCHANGED itineraries
  /\ UNCHANGED <<nextItinId, started>>
  /\ UNCHANGED notItinVars

\* SpotDetail.handleAddToItinerary up to its first request
DetailBegin(c, e) ==
  /\ tab[c].pc = "idle"
  /\ catalog[e] # "deleted"
  /\ started < MaxOps
  /\ started' = started + 1
  /\ tab' = [tab EXCEPT ![c] =
       [IdleTab EXCEPT !.pc = "s_fetch", !.item = e, !.itemName = catalog[e],
                       !.loading = TRUE]]
  /\ UNCHANGED <<itineraries, nextItinId>>
  /\ UNCHANGED notItinVars

\* the select of the latest itinerary returns
DetailFetch(c, ok) ==
  /\ tab[c].pc = "s_fetch"
  /\ IF ~ok
     THEN tab' = [tab EXCEPT ![c].pc = "idle", ![c].loading = FALSE,
                             ![c].toast = "failed"]
     ELSE IF Len(itineraries) > 0
     THEN LET itinerary == itineraries[Len(itineraries)]
              currentSpots == itinerary.spots
              spot == Entry(tab[c].item, "detail", tab[c].itemName)
          IN IF Exists(currentSpots, tab[c].item)
             THEN tab' = [tab EXCEPT ![c].pc = "idle", ![c].loading = FALSE,
                                     ![c].toast = "already"]
             ELSE tab' = [tab EXCEPT ![c].pc = "s_update",
                                     ![c].itineraryId = itinerary.id,
                                     ![c].updatedSpots = Append(currentSpots, spot),
                                     ![c].updates = @ + 1]
     ELSE tab' = [tab EXCEPT ![c].pc = "s_insert"]
  /\ UNCHANGED <<itineraries, nextItinId, started>>
  /\ UNCHANGED notItinVars

DetailUpdate(c, ok) ==
  /\ tab[c].pc = "s_update"
  /\ IF ok
     THEN /\ itineraries' = UpdateSpots(tab[c].itineraryId, tab[c].updatedSpots)
          /\ tab' = [tab EXCEPT ![c].pc = "idle", ![c].loading = FALSE,
                                ![c].toast = "added"]
     ELSE /\ tab' = [tab EXCEPT ![c].pc = "idle", ![c].loading = FALSE,
                                ![c].toast = "failed"]
          /\ UNCHANGED itineraries
  /\ UNCHANGED <<nextItinId, started>>
  /\ UNCHANGED notItinVars

DetailInsert(c, ok) ==
  /\ tab[c].pc = "s_insert"
  /\ IF ok
     THEN /\ itineraries' = InsertItinerary("My Travel Itinerary",
                               <<Entry(tab[c].item, "detail", tab[c].itemName)>>)
          /\ nextItinId' = nextItinId + 1
          /\ tab' = [tab EXCEPT ![c].pc = "idle", ![c].loading = FALSE,
                                ![c].toast = "created"]
     ELSE /\ tab' = [tab EXCEPT ![c].pc = "idle", ![c].loading = FALSE,
                                ![c].toast = "failed"]
          /\ UNCHANGED <<itineraries, nextItinId>>
  /\ UNCHANGED started
  /\ UNCHANGED notItinVars

\* the recommended spots a post-onboarding modal displays: rows of the
\* catalog, each id once
DisplayedSpots == <<1, 2>>

\* PostOnboardingSpotSelection.handleCreateItinerary (and the accommodation
\* modal's): one insert holding the selected entities in displayed order
SelectionCreateItinerary(selected, ok) ==
  /\ started < MaxOps
  /\ \A e \in selected : catalog[e] # "deleted"
  /\ started' = started + 1
  /\ IF selected = {}
     THEN /\ selectionToast' = "select-one"
          /\ UNCHANGED <<itineraries, nextItinId, selectionRequests>>
     ELSE /\ selectionRequests' = selectionRequests + 1
          /\ IF ~ok
             THEN /\ selectionToast' = "failed"
                  /\ UNCHANGED <<itineraries, nextItinId>>
             ELSE LET selectedSpotsData ==
                        SelectSeq(DisplayedSpots, LAMBDA e : e \in selected)
                  IN /\ itineraries' =
                          InsertItinerary("My Personalized Itinerary",
                            [i \in 1..Len(selectedSpotsData) |->
                               Entry(selectedSpotsData[i], "modal",
                                     catalog[selectedSpotsData[i]])])
                     /\ nextItinId' = nextItinId + 1
                     /\ selectionToast' = "created"
  /\ UNCHANGED tab
  /\ UNCHANGED <<recVars, csvVars, importVars, wizVars, userVars, roleVars,
                 catalogVars, reviewVars, cleanVars, pickVars, deactVars>>

\* MyItinerary.deleteItinerary
DeleteItinerary(id) ==
  /\ started < MaxOps
  /\ started' = started + 1
  /\ RowsWithId(id) # {}
  /\ itineraries' = SelectSeq(itineraries, LAMBDA r : r.id # id)
  /\ UNCHANGED <<nextItinId, tab>>
  /\ UNCHANGED notItinVars

\* the user's itineraries when the tabs open: none, an empty one, or one
\* that already holds an entity
InitialItineraries ==
  {<<>>,
   <<[id |-> 1, name |-> "Trip", spots |-> <<>>]>>,
   <<[id |-> 1, name |-> "Trip", spots |-> <<Entry(1, "dialog", "v1")>>]>>}

ItinInit ==
  /\ itineraries \in InitialItineraries
  /\ nextItinId = Len(itineraries) + 1
  /\ tab = [c \in Tabs |-> IdleTab]
  /\ started = 0
  /\ selectionToast = "none"
  /\ selectionRequests = 0

ItinNext ==
  \/ \E c \in Tabs, mode \in {"select", "create"}, sel \in 0..MaxOps + 1,
        name \in ItineraryNames, e \in Entities : DialogBegin(c, mode, sel, name, e)
  \/ \E c \in Tabs, ok \in BOOLEAN : DialogInsert(c, ok)
  \/ \E c \in Tabs, ok \in BOOLEAN : DialogFetch(c, ok)
  \/ \E c \in Tabs, ok \in BOOLEAN : DialogUpdate(c, ok)
  \/ \E c \in Tabs, e \in Entities : DetailBegin(c, e)
  \/ \E c \in Tabs, ok \in BOOLEAN : DetailFetch(c, ok)
  \/ \E c \in Tabs, ok \in BOOLEAN : DetailUpdate(c, ok)
  \/ \E c \in Tabs, ok \in BOOLEAN : DetailInsert(c, ok)
  \/ \E selected \in SUBSET Entities, ok \in BOOLEAN :
        SelectionCreateItinerary(selected, ok)
  \/ \E id \in 1..MaxOps + 1 : DeleteItinerary(id)

-----------------------------------------------------------------------------
(* The catalog: edits and deletions by the administrators *)

\* an administrator edits a catalog row
EditEntity(e) ==
  /\ catalog[e] = "v1"
  /\ catalog' = [catalog EXCEPT ![e] = "v2"]
  /\ UNCHANGED notCatalogVars

\* an administrator deletes a catalog row
DeleteEntity(e) ==
  /\ catalog[e] # "deleted"
  /\ catalog' = [catalog EXCEPT ![e] = "deleted"]
  /\ UNCHANGED notCatalogVars

CatalogNext == \E e \in Entities : EditEntity(e) \/ DeleteEntity(e)

CatalogInit == catalog = [e \in Entities |-> "v1"]

-----------------------------------------------------------------------------
(* Claims about itineraries *)

EntryIds(spots) == {spots[i].id : i \in 1..Len(spots)}

\* the list a pending read of tab c is about to be answered with
StoredTarget(c) ==
  IF tab[c].pc = "d_fetch"
  THEN {itineraries[i].spots : i \in RowsWithId(tab[c].itineraryId)}
  ELSE IF tab[c].pc = "s_fetch" /\ Len(itineraries) > 0
  THEN {itineraries[Len(itineraries)].spots}
  ELSE {}

ReadsStoredDuplicate(c) ==
  /\ tab[c].pc \in {"d_fetch", "s_fetch"}
  /\ tab'[c].pc # tab[c].pc
  /\ \E spots \in StoredTarget(c) : tab[c].item \in EntryIds(spots)

\* C1: an add whose read finds the entity id already in the stored list is
\* rejected with a notification, issues no update request and leaves the
\* stored lists unchanged.
C1_DuplicateAddRejected ==
  [][\A c \in Tabs :
       ReadsStoredDuplicate(c) =>
         /\ tab'[c].pc = "idle"
         /\ tab'[c].toast \in {"already", "failed"}
         /\ tab'[c].loading = FALSE
         /\ tab'[c].updates = 0
         /\ itineraries' = itineraries]_vars

C1_Witness ==
  \E c \in Tabs :
    /\ tab[c].pc = "idle"
    /\ tab[c].toast = "already"
    /\ tab[c].updates = 0
    /\ \E i \in 1..Len(itineraries) : tab[c].item \in EntryIds(itineraries[i].spots)

\* C2: under any interleaving of the adds of several tabs, no stored list
\* holds two entries with the same entity id.
C2_NoDuplicateEntity ==
  \A i \in 1..Len(itineraries) :
    \A j, k \in 1..Len(itineraries[i].spots) :
      j # k => itineraries[i].spots[j].id # itineraries[i].spots[k].id

C2_Witness ==
  \E c, d \in Tabs :
    /\ c # d
    /\ tab[c].pc = "idle" /\ tab[d].pc = "idle"
    /\ tab[c].toast = "added" /\ tab[d].toast = "added"
    /\ tab[c].item = tab[d].item
    /\ tab[c].itineraryId = tab[d].itineraryId
    /\ tab[c].updatedSpots = tab[d].updatedSpots
    /\ \E i \in RowsWithId(tab[c].itineraryId) :
         itineraries[i].spots = tab[c].updatedSpots

-----------------------------------------------------------------------------
(* Preference scorers.  Scores are held in units of 1/25 so that the       *)
(* personalized feed's rating boost (rating / 5) * 2 stays an integer.     *)

ScoreUnit == 25

\* PersonalizedFeed and NearbyInYourDistrict: district lookup table
DistrictMunicipalities(district) ==
  CASE district = "District 1" -> <<"Tabaco", "Tiwi", "Malinao", "Bacacay">>
    [] district = "District 2" -> <<"Legazpi", "Daraga", "Camalig", "Manito">>
    [] district = "District 3" ->
         <<"Ligao", "Guinobatan", "Pioduran", "Jovellar", "Oas", "Polangui", "Libon">>
    [] OTHER -> <<>>

\* municipalities.some(m => municipality.toLowerCase().includes(m.toLowerCase()))
InDistrict(municipality, district) ==
  LET ms == DistrictMunicipalities(district)
  IN \E i \in 1..Len(ms) :
       Includes(ToLowerCase(municipality), ToLowerCase(ms[i]))

FeedDistrict(prefs, spot) ==
  IF /\ Truthy(prefs.albayDistrict)
     /\ ~IsStr(prefs.albayDistrict, "Any District")
     /\ Truthy(spot.municipality)
     /\ prefs.albayDistrict.t = "str"
     /\ InDistrict(spot.municipality.s, prefs.albayDistrict.s)
  THEN 5 ELSE 0

FeedTraveler(prefs, spot) ==
  IF Truthy(prefs.travelerType) /\ Truthy(spot.category)
  THEN (IF IsStr(prefs.travelerType, "Nature Lover")
           /\ SomeLowerIncludes(spot.category, {"nature", "eco"}) THEN 3 ELSE 0)
     + (IF IsStr(prefs.travelerType, "Adventure Seeker")
           /\ SomeLowerIncludes(spot.category, {"adventure", "hiking"}) THEN 3 ELSE 0)
     + (IF IsStr(prefs.travelerType, "Food Explorer")
           /\ SomeLowerIncludes(spot.category, {"food", "restaurant"}) THEN 3 ELSE 0)
     + (IF IsStr(prefs.travelerType, "Cultural/Historical Traveler")
           /\ SomeLowerIncludes(spot.category, {"cultural", "historical"}) THEN 3 ELSE 0)
  ELSE 0

FeedActivity(activity, spot) ==
    (IF Includes(activity, "Hiking") /\ SomeLowerIncludes(spot.category, {"hiking"})
     THEN 2 ELSE 0)
  + (IF Includes(activity, "Beach") /\ SomeLowerIncludes(spot.category, {"beach"})
     THEN 2 ELSE 0)
  + (IF Includes(activity, "Waterfall") /\ SomeLowerIncludes(spot.category, {"waterfall"})
     THEN 2 ELSE 0)
  + (IF Includes(activity, "Food") /\ SomeLowerIncludes(spot.category, {"food"})
     THEN 2 ELSE 0)
  + (IF Includes(activity, "Historical") /\ SomeLowerIncludes(spot.category, {"historical"})
     THEN 2 ELSE 0)

RECURSIVE FeedActivitiesFrom(_, _, _)
FeedActivitiesFrom(activities, spot, i) ==
  IF i > Len(activities) THEN 0
  ELSE FeedActivity(activities[i], spot) + FeedActivitiesFrom(activities, spot, i + 1)

FeedActivities(prefs, spot) ==
  IF Truthy(prefs.activities) /\ prefs.activities.t = "list" /\ Truthy(spot.category)
  THEN FeedActivitiesFrom(prefs.activities.l, spot, 1)
  ELSE 0

\* budgetMap[prefs.budgetRange]
FeedBudgetMap(budgetRange) ==
  CASE IsStr(budgetRange, "Budget-friendly") -> JStr("budget")
    [] IsStr(budgetRange, "Moderate") -> JStr("moderate")
    [] IsStr(budgetRange, "Premium") -> JStr("premium")
    [] OTHER -> JUndef

FeedBudget(prefs, spot) ==
  IF /\ Truthy(prefs.budgetRange)
     /\ ~IsStr(prefs.budgetRange, "No preference")
     /\ StrictEquals(spot.budget_level, FeedBudgetMap(prefs.budgetRange))
  THEN 2 ELSE 0

FeedPlaceUnguarded(prefs, spot) ==
    (IF IsStr(prefs.placePreference, "Hidden Gems") /\ Truthy(spot.is_hidden_gem)
     THEN 3 ELSE 0)
  + (IF ~Truthy(spot.is_hidden_gem) THEN 2 ELSE 0)
  + (IF IsStr(prefs.placePreference, "Both") THEN 1 ELSE 0)
FeedPlace(prefs, spot) ==
    (IF IsStr(prefs.placePreference, "Hidden Gems") /\ Truthy(spot.is_hidden_gem)
     THEN 3 ELSE 0)
  + (IF IsStr(prefs.placePreference, "Popular Tourist Spots") /\ ~Truthy(spot.is_hidden_gem)
     THEN 2 ELSE 0)
  + (IF IsStr(prefs.placePreference, "Both") THEN 1 ELSE 0)

FeedAccessibility(prefs, spot) ==
  IF Truthy(prefs.accessibilityNeeded) /\ Truthy(spot.accessibility_friendly)
  THEN 3 ELSE 0

FeedSceneryApplies(prefs, spot) ==
  /\ Truthy(prefs.sceneryPreference)
  /\ ~IsStr(prefs.sceneryPreference, "No preference")
  /\ Truthy(spot.scenery_type)

FeedScenery(prefs, spot) ==
  IF /\ FeedSceneryApplies(prefs, spot)
     /\ prefs.sceneryPreference.t = "str"
     /\ \E i \in 1..Len(spot.scenery_type.l) :
          LET type == ToLowerCase(spot.scenery_type.l[i])
              pref == ToLowerCase(prefs.sceneryPreference.s)
          IN Includes(type, pref) \/ Includes(pref, type)
  THEN 2 ELSE 0

\* if (spot.rating) score += (spot.rating / 5) * 2, in units of 1/25
FeedRating(spot) == IF Truthy(spot.rating) THEN spot.rating.n ELSE 0

FeedScore(prefs, spot) ==
  ScoreUnit * ( FeedDistrict(prefs, spot) + FeedTraveler(prefs, spot)
              + FeedActivities(prefs, spot) + FeedBudget(prefs, spot)
              + FeedPlace(prefs, spot) + FeedAccessibility(prefs, spot)
              + FeedScenery(prefs, spot) )
  + FeedRating(spot)

\* prefs.sceneryPreference.toLowerCase is not a function
FeedThrows(prefs, spot) ==
  /\ FeedSceneryApplies(prefs, spot)
  /\ prefs.sceneryPreference.t # "str"
  /\ Len(spot.scenery_type.l) > 0

\* PostOnboardingSpotSelection.fetchRecommendedSpots

\* value?.includes(needle): undefined (falsy) on null and undefined
OptIncludes(v, needle) == v.t = "str" /\ Includes(v.s, needle)

SpotDistrict(prefs, spot) ==
  IF /\ Truthy(prefs.albayDistrict)
     /\ ~IsStr(prefs.albayDistrict, "Any District")
     /\ prefs.albayDistrict.t = "str"
     /\ OptIncludes(spot.location, prefs.albayDistrict.s)
  THEN 3 ELSE 0

SpotActivities(prefs, spot) ==
  IF Truthy(prefs.activities) /\ Truthy(spot.category)
  THEN LET activityKeywords == ToLowerCase(Join(prefs.activities.l, " "))
           spotCategories == ToLowerCase(Join(spot.category.l, " "))
       IN (IF Includes(activityKeywords, "hiking") /\ Includes(spotCategories, "adventure")
           THEN 2 ELSE 0)
        + (IF Includes(activityKeywords, "beach") /\ Includes(spotCategories, "beach")
           THEN 2 ELSE 0)
        + (IF Includes(activityKeywords, "food") /\ Includes(spotCategories, "food")
           THEN 2 ELSE 0)
  ELSE 0

SpotScenery(prefs, spot) ==
  IF /\ Truthy(prefs.sceneryPreference)
     /\ Truthy(spot.scenery_type)
     /\ prefs.sceneryPreference.t = "str"
     /\ \E i \in 1..Len(spot.scenery_type.l) :
          Includes(ToLowerCase(prefs.sceneryPreference.s),
                   ToLowerCase(spot.scenery_type.l[i]))
  THEN 2 ELSE 0

SpotBudget(prefs, spot) ==
  IF /\ Truthy(prefs.budgetRange)
     /\ Truthy(spot.budget_level)
     /\ Includes(ToLowerCase(prefs.budgetRange.s), ToLowerCase(spot.budget_level.s))
  THEN 1 ELSE 0

SpotPlace(prefs, spot) ==
  IF Truthy(prefs.placePreference)
  THEN (IF IsStr(prefs.placePreference, "Hidden Gems") /\ Truthy(spot.is_hidden_gem)
        THEN 2 ELSE 0)
     + (IF IsStr(prefs.placePreference, "Popular Tourist Spots")
           /\ ~Truthy(spot.is_hidden_gem)
        THEN 2 ELSE 0)
     + (IF IsStr(prefs.placePreference, "Both") THEN 1 ELSE 0)
  ELSE 0

SpotAccessibility(prefs, spot) ==
  IF Truthy(prefs.accessibilityNeeded) /\ Truthy(spot.accessibility_friendly)
  THEN 2 ELSE 0

SpotScore(prefs, spot) ==
  ScoreUnit * ( SpotDistrict(prefs, spot) + SpotActivities(prefs, spot)
              + SpotScenery(prefs, spot) + SpotBudget(prefs, spot)
              + SpotPlace(prefs, spot) + SpotAccessibility(prefs, spot) )

\* preferences.activities.join / preferences.sceneryPreference.toLowerCase /
\* preferences.budgetRange.toLowerCase is not a function
SpotThrows(prefs, spot) ==
  \/ Truthy(prefs.activities) /\ Truthy(spot.category) /\ prefs.activities.t # "list"
  \/ /\ Truthy(prefs.sceneryPreference) /\ Truthy(spot.scenery_type)
     /\ prefs.sceneryPreference.t # "str"
     /\ Len(spot.scenery_type.l) > 0
  \/ Truthy(prefs.budgetRange) /\ Truthy(spot.budget_level) /\ prefs.budgetRange.t # "str"

\* PostOnboardingAccommodationSelection.fetchRecommendedAccommodations

AccDistrict(prefs, acc) ==
  IF /\ Truthy(prefs.albayDistrict)
     /\ ~IsStr(prefs.albayDistrict, "Any District")
     /\ prefs.albayDistrict.t = "str"
     /\ \/ OptIncludes(acc.location, prefs.albayDistrict.s)
        \/ OptIncludes(acc.municipality, prefs.albayDistrict.s)
  THEN 3 ELSE 0

\* the peso sign of the price ranges (one character, U+20B1), written with
\* an ASCII character that occurs in no other value
Peso == "$"

\* budgetMap[preferences.budgetRange] || []
AccBudgetMap(budgetRange) ==
  CASE IsStr(budgetRange, "Budget-friendly") -> <<"Budget", Peso>>
    [] IsStr(budgetRange, "Moderate") -> <<"Mid-range", Peso \o Peso, "Moderate">>
    [] IsStr(budgetRange, "Premium") -> <<"Luxury", Peso \o Peso \o Peso, "Premium">>
    [] OTHER -> <<>>

AccBudget(prefs, acc) ==
  IF /\ Truthy(prefs.budgetRange)
     /\ Truthy(acc.price_range)
     /\ LET matchingRanges == AccBudgetMap(prefs.budgetRange)
        IN \E i \in 1..Len(matchingRanges) :
             Includes(acc.price_range.s, matchingRanges[i])
  THEN 3 ELSE 0

\* preferences.travelerType.includes(word): substring of a string, element
\* of a list
TravelerIncludes(v, word) ==
  \/ v.t = "str" /\ Includes(v.s, word)
  \/ v.t = "list" /\ \E i \in 1..Len(v.l) : v.l[i] = word

AccTraveler(prefs, acc) ==
  IF Truthy(prefs.travelerType) /\ Truthy(acc.category)
  THEN LET categoryString == ToLowerCase(Join(acc.category.l, " "))
       IN (IF TravelerIncludes(prefs.travelerType, "Relaxed")
              /\ Includes(categoryString, "resort") THEN 2 ELSE 0)
        + (IF TravelerIncludes(prefs.travelerType, "Adventure")
              /\ Includes(categoryString, "hostel") THEN 2 ELSE 0)
        + (IF TravelerIncludes(prefs.travelerType, "Family")
              /\ Includes(categoryString, "hotel") THEN 2 ELSE 0)
  ELSE 0

AccCompanions(prefs, acc) ==
  IF Truthy(prefs.travelCompanions) /\ Truthy(acc.amenities)
  THEN LET amenitiesString == ToLowerCase(Join(acc.amenities.l, " "))
       IN (IF IsStr(prefs.travelCompanions, "Family")
              /\ Includes(amenitiesString, "family") THEN 2 ELSE 0)
        + (IF IsStr(prefs.travelCompanions, "Couple")
              /\ Includes(amenitiesString, "romantic") THEN 1 ELSE 0)
  ELSE 0

\* rating > 4 and rating > 4.5, the rating held in tenths
AccRating(acc) ==
    (IF acc.rating.t = "num" /\ acc.rating.n > 40 THEN 1 ELSE 0)
  + (IF acc.rating.t = "num" /\ acc.rating.n > 45 THEN 1 ELSE 0)

AccScore(prefs, acc) ==
  ScoreUnit * ( AccDistrict(prefs, acc) + AccBudget(prefs, acc)
              + AccTraveler(prefs, acc) + AccCompanions(prefs, acc)
              + AccRating(acc) )

\* accommodation.price_range.includes / category.join is not a function
AccThrows(prefs, acc) ==
  \/ Truthy(prefs.budgetRange) /\ Truthy(acc.price_range) /\ acc.price_range.t # "str"
  \/ Truthy(prefs.travelerType) /\ Truthy(acc.category) /\ acc.category.t # "list"
  \/ Truthy(prefs.travelCompanions) /\ Truthy(acc.amenities) /\ acc.amenities.t # "list"

-----------------------------------------------------------------------------
(* Recommenders: fetch, score, sort, truncate *)

SpotModalCount == 12
AccModalCount == 10
FeedCount == 8
NearbyCount == 6
RecAccCount == 6

\* Array.prototype.sort((a, b) => b.score - a.score): a stable sort
RECURSIVE InsertDescUnstable(_, _)
InsertDescUnstable(x, sorted) ==
  IF Len(sorted) = 0 THEN <<x>>
  ELSE IF Head(sorted).score > x.score
  THEN <<Head(sorted)>> \o InsertDescUnstable(x, Tail(sorted))
  ELSE <<x>> \o sorted
RECURSIVE InsertDesc(_, _)
InsertDesc(x, sorted) ==
  IF Len(sorted) = 0 THEN <<x>>
  ELSE IF Head(sorted).score >= x.score
  THEN <<Head(sorted)>> \o InsertDesc(x, Tail(sorted))
  ELSE <<x>> \o sorted

RECURSIVE SortDesc(_)
SortDesc(rows) ==
  IF Len(rows) = 0 THEN <<>>
  ELSE InsertDesc(rows[Len(rows)], SortDesc(SubSeq(rows, 1, Len(rows) - 1)))

\* !prefs || !prefs.autoRecommendations
FeedGatePresentOnly == ~preferences.present
FeedGateClosed == ~preferences.present \/ ~Truthy(preferences.autoRecommendations)

\* .filter((spot) => spot.score > 0)
KeepsAnyScore(r) == r.score >= 0
KeepsScore(r) == r.score > 0

\* PersonalizedFeed.fetchPersonalizedSpots
FetchPersonalizedSpots(profileOk, ok) ==
  /\ recKind = "feed"
  /\ recLoading
  /\ recLoading' = FALSE
  /\ IF ~profileOk \/ FeedGateClosed
     THEN /\ shownRows' = <<>>
          /\ recOutcome' = "gated"
          /\ UNCHANGED <<scoredRows, recToast>>
     ELSE IF ~ok \/ \E i \in 1..Len(table) : FeedThrows(preferences, table[i])
     THEN /\ recToast' = "failed"
          /\ recOutcome' = IF ok THEN "threw" ELSE "error"
          /\ UNCHANGED <<scoredRows, shownRows>>
     ELSE LET scoredSpots ==
                [i \in 1..Len(table) |->
                   [id |-> table[i].id, score |-> FeedScore(preferences, table[i])]]
              topSpots ==
                Slice(SortDesc(SelectSeq(scoredSpots, KeepsScore)),
                      FeedCount)
          IN /\ scoredRows' = scoredSpots
             /\ shownRows' = topSpots
             /\ recOutcome' = "done"
             /\ UNCHANGED recToast
  /\ UNCHANGED <<recKind, preferences, table, notRecVars>>

\* reading a field of a missing preferences object throws
ModalThrows(row) ==
  \/ ~preferences.present
  \/ recKind = "spotModal" /\ SpotThrows(preferences, row)
  \/ recKind = "accModal" /\ AccThrows(preferences, row)

\* PostOnboardingSpotSelection.fetchRecommendedSpots
FetchRecommendedSpots(ok) ==
  /\ recKind = "spotModal"
  /\ recLoading
  /\ recLoading' = FALSE
  /\ IF ~ok \/ \E i \in 1..Len(table) : ModalThrows(table[i])
     THEN /\ recToast' = "failed"
          /\ recOutcome' = IF ok THEN "threw" ELSE "error"
          /\ UNCHANGED <<scoredRows, shownRows>>
     ELSE LET scoredSpots ==
                [i \in 1..Len(table) |->
                   [id |-> table[i].id, score |-> SpotScore(preferences, table[i])]]
          IN /\ scoredRows' = scoredSpots
             /\ shownRows' = Slice(SortDesc(scoredSpots), SpotModalCount)
             /\ recOutcome' = "done"
             /\ UNCHANGED recToast
  /\ UNCHANGED <<recKind, preferences, table, notRecVars>>

\* PostOnboardingAccommodationSelection.fetchRecommendedAccommodations
FetchRecommendedAccommodations(ok) ==
  /\ recKind = "accModal"
  /\ recLoading
  /\ recLoading' = FALSE
  /\ IF ~ok \/ \E i \in 1..Len(table) : ModalThrows(table[i])
     THEN /\ recToast' = "failed"
          /\ recOutcome' = IF ok THEN "threw" ELSE "error"
          /\ UNCHANGED <<scoredRows, shownRows>>
     ELSE LET scoredAccommodations ==
                [i \in 1..Len(table) |->
                   [id |-> table[i].id, score |-> AccScore(preferences, table[i])]]
          IN /\ scoredRows' = scoredAccommodations
             /\ shownRows' = Slice(SortDesc(scoredAccommodations), AccModalCount)
             /\ recOutcome' = "done"
             /\ UNCHANGED recToast
  /\ UNCHANGED <<recKind, preferences, table, notRecVars>>

\* NearbyInYourDistrict: the filter of fetchNearbySpots
NearbyRetains(district, spot) ==
  /\ Truthy(spot.municipality)
  /\ InDistrict(spot.municipality.s, district)

\* (b.rating || 0) - (a.rating || 0)
RatingOrZero(row) == IF Truthy(row.rating) THEN row.rating.n ELSE 0

\* NearbyInYourDistrict.fetchNearbySpots
FetchNearbySpots(profileOk, ok) ==
  /\ recKind = "nearby"
  /\ recLoading
  /\ recLoading' = FALSE
  /\ IF ~profileOk \/ ~preferences.present \/ ~Truthy(preferences.albayDistrict)
     THEN /\ shownRows' = <<>>
          /\ recOutcome' = "gated"
          /\ UNCHANGED <<scoredRows, recToast>>
     ELSE IF ~ok
     THEN /\ recToast' = "failed"
          /\ recOutcome' = "error"
          /\ UNCHANGED <<scoredRows, shownRows>>
     ELSE LET byRating ==
                [i \in 1..Len(table) |->
                   [id |-> table[i].id, score |-> RatingOrZero(table[i])]]
          IN /\ scoredRows' = byRating
             /\ recOutcome' = "done"
             /\ UNCHANGED recToast
             /\ IF IsStr(preferences.albayDistrict, "Any District")
                THEN shownRows' = Slice(byRating, NearbyCount)
                ELSE shownRows' =
                       Slice(SortDesc(SelectSeq(byRating,
                               LAMBDA r : NearbyRetains(preferences.albayDistrict.s,
                                                        table[r.id]))),
                             NearbyCount)
  /\ UNCHANGED <<recKind, preferences, table, notRecVars>>

\* AccommodationsSection.RecommendedAccommodations.extractMunicipalities
ExtractMunicipalities(district) ==
  CASE district = "District 1" -> <<"Tabaco City", "Tiwi", "Malinao", "Bacacay">>
    [] district = "District 2" -> <<"Legazpi City", "Daraga", "Camalig", "Manito">>
    [] district = "District 3" ->
         <<"Ligao City", "Guinobatan", "Pioduran", "Jovellar", "Oas", "Polangui", "Libon">>
    [] OTHER -> <<>>

RecBudgetMap(budgetRange) ==
  CASE IsStr(budgetRange, "Budget-friendly") -> "Budget"
    [] IsStr(budgetRange, "Moderate") -> "Mid-range"
    [] IsStr(budgetRange, "Premium") -> "Luxury"
    [] OTHER -> ""

\* the query's filters: .in("municipality", municipalities), .eq("price_range", mapped)
RecDistrictRetains(acc) ==
  IF /\ preferences.present /\ Truthy(preferences.albayDistrict)
     /\ ~IsStr(preferences.albayDistrict, "Any District")
     /\ Len(ExtractMunicipalities(preferences.albayDistrict.s)) > 0
  THEN LET municipalities == ExtractMunicipalities(preferences.albayDistrict.s)
       IN /\ acc.municipality.t = "str"
          /\ \E i \in 1..Len(municipalities) : acc.municipality.s = municipalities[i]
  ELSE TRUE

RecBudgetRetains(acc) ==
  IF /\ preferences.present /\ Truthy(preferences.budgetRange)
     /\ ~IsStr(preferences.budgetRange, "No preference")
     /\ RecBudgetMap(preferences.budgetRange) # ""
  THEN IsStr(acc.price_range, RecBudgetMap(preferences.budgetRange))
  ELSE TRUE

\* RecommendedAccommodations.fetchRecommendedAccommodations: the store orders
\* by rating descending (rows without a rating first) and returns 6 rows;
\* the order among equal ratings is the store's choice
RecFetchRecommendedAccommodations(ok, tieBreakReversed) ==
  /\ recKind = "recAcc"
  /\ recLoading
  /\ recLoading' = FALSE
  /\ IF ~ok
     THEN /\ recOutcome' = "error"
          /\ UNCHANGED <<scoredRows, shownRows, recToast>>
     ELSE LET key(i) == IF table[i].rating.t = "num" THEN table[i].rating.n ELSE 1000
              source == IF tieBreakReversed
                        THEN [i \in 1..Len(table) |->
                                [id |-> table[Len(table) + 1 - i].id,
                                 score |-> key(Len(table) + 1 - i)]]
                        ELSE [i \in 1..Len(table) |->
                                [id |-> table[i].id, score |-> key(i)]]
              kept == SelectSeq(source,
                        LAMBDA r : RecDistrictRetains(table[r.id])
                                   /\ RecBudgetRetains(table[r.id]))
          IN /\ scoredRows' = source
             /\ shownRows' = Slice(SortDesc(kept), RecAccCount)
             /\ recOutcome' = "done"
             /\ UNCHANGED recToast
  /\ UNCHANGED <<recKind, preferences, table, notRecVars>>

\* the effect that starts a fetch runs again: its dependency (the user id, or
\* the preferences object, compared by reference) has changed; the earlier
\* notification has been dismissed and the component state is kept
Refetch ==
  /\ recKind \in {"feed", "spotModal", "accModal", "nearby", "recAcc"}
  /\ ~recLoading
  /\ recLoading' = TRUE
  /\ recOutcome' = "pending"
  /\ recToast' = "none"
  /\ UNCHANGED <<recKind, preferences, table, scoredRows, shownRows, notRecVars>>

\* the profiles the feed's userId can change to: no stored preferences, or
\* the current ones with the autoRecommendations flag either way
FeedUsers ==
  {[preferences EXCEPT !.present = FALSE, !.autoRecommendations = JUndef]}
  \cup {[preferences EXCEPT !.autoRecommendations = JBool(b)] : b \in BOOLEAN}

\* PersonalizedFeed: userId changes and the effect fetches for the new user
FeedUserChange(p) ==
  /\ recKind = "feed"
  /\ ~recLoading
  /\ preferences.present
  /\ p # preferences
  /\ preferences' = p
  /\ recLoading' = TRUE
  /\ recOutcome' = "pending"
  /\ recToast' = "none"
  /\ UNCHANGED <<recKind, table, scoredRows, shownRows, notRecVars>>

RecNext ==
  \/ \E profileOk, ok \in BOOLEAN : FetchPersonalizedSpots(profileOk, ok)
  \/ \E ok \in BOOLEAN : FetchRecommendedSpots(ok)
  \/ \E ok \in BOOLEAN : FetchRecommendedAccommodations(ok)
  \/ \E profileOk, ok \in BOOLEAN : FetchNearbySpots(profileOk, ok)
  \/ \E ok, rev \in BOOLEAN : RecFetchRecommendedAccommodations(ok, rev)
  \/ Refetch
  \/ \E p \in FeedUsers : FeedUserChange(p)

-----------------------------------------------------------------------------
(* Stored data the recommenders start from *)

Recommenders == {"feed", "spotModal", "accModal", "nearby", "recAcc"}

\* the forms in which an optional text or list field can be absent
AbsentForms ==
  { [str |-> JNull, list |-> JNull],
    [str |-> JUndef, list |-> JUndef],
    [str |-> JStr(""), list |-> JList(<<>>)] }

\* user_preferences with every optional field absent in form f
AbsentPrefs(f) ==
  [present |-> TRUE, albayDistrict |-> f.str, travelerType |-> f.str,
   activities |-> f.list, sceneryPreference |-> f.str,
   placePreference |-> f.str, budgetRange |-> f.str,
   accessibilityNeeded |-> JBool(FALSE), travelCompanions |-> f.str,
   autoRecommendations |-> JBool(TRUE)]

\* profiles.user_preferences is null
NoPrefs ==
  [AbsentPrefs([str |-> JUndef, list |-> JUndef])
     EXCEPT !.present = FALSE, !.autoRecommendations = JUndef]

BlankPrefs == AbsentPrefs([str |-> JStr(""), list |-> JList(<<>>)])

\* a tourist_spots row with every optional field absent in form f
AbsentSpot(f) ==
  [id |-> 1, location |-> f.str, municipality |-> f.str, category |-> f.list,
   scenery_type |-> f.list, budget_level |-> f.str, is_hidden_gem |-> JNull,
   accessibility_friendly |-> JNull, rating |-> JNull]

\* an accommodations row with every optional field absent in form f
AbsentAcc(f) ==
  [id |-> 1, location |-> f.str, municipality |-> f.str, category |-> f.list,
   amenities |-> f.list, price_range |-> f.str, rating |-> JNull]

BlankSpot ==
  [AbsentSpot([str |-> JNull, list |-> JNull])
     EXCEPT !.location = JStr("Albay"), !.is_hidden_gem = JBool(FALSE),
            !.accessibility_friendly = JBool(FALSE)]

BlankAcc ==
  [AbsentAcc([str |-> JNull, list |-> JNull]) EXCEPT !.location = JStr("Albay")]

Districts == {"District 1", "District 2", "District 3", "Any District"}
BudgetRanges == {"Budget-friendly", "Moderate", "Premium", "No preference"}
PlacePreferences == {"Popular Tourist Spots", "Hidden Gems", "Both", "Popular"}

PrefsPool ==
       {AbsentPrefs(f) : f \in AbsentForms}
  \cup {[AbsentPrefs(f) EXCEPT !.accessibilityNeeded = f.str] : f \in AbsentForms}
  \cup {[AbsentPrefs(f) EXCEPT !.autoRecommendations = f.str] : f \in AbsentForms}
  \cup {NoPrefs}
  \cup {[BlankPrefs EXCEPT !.travelerType = JList(<<>>),
                           !.sceneryPreference = JList(<<>>)]}
  \cup {[BlankPrefs EXCEPT !.albayDistrict = JStr(d)] : d \in Districts}
  \cup {[BlankPrefs EXCEPT !.budgetRange = JStr(b)] : b \in BudgetRanges}
  \cup {[BlankPrefs EXCEPT !.placePreference = JStr(p)] : p \in PlacePreferences}
  \cup {[BlankPrefs EXCEPT !.travelerType = t] :
          t \in {JStr("Nature Lover"), JStr("Relaxed Tourist"),
                 JList(<<"Adventure Seeker", "Family Traveler">>)}}
  \cup {[BlankPrefs EXCEPT !.activities = JList(a)] :
          a \in {<<"Hiking / Trekking">>, <<"Beach Hopping", "Food Trip">>}}
  \cup {[BlankPrefs EXCEPT !.sceneryPreference = v] :
          v \in {JStr("Beaches / Coastlines"), JStr("No preference"),
                 JList(<<"Beach">>)}}
  \cup {[BlankPrefs EXCEPT !.activities = JStr("Hiking")]}
  \cup {[BlankPrefs EXCEPT !.accessibilityNeeded = JBool(TRUE)]}
  \cup {[BlankPrefs EXCEPT !.travelCompanions = JStr(c)] : c \in {"Family", "Couple"}}
  \cup {[BlankPrefs EXCEPT !.albayDistrict = JStr("District 1"),
                           !.budgetRange = JStr("Moderate"),
                           !.placePreference = JStr("Hidden Gems"),
                           !.travelerType = JStr("Nature Lover"),
                           !.activities = JList(<<"Hiking / Trekking">>),
                           !.sceneryPreference = JStr("Mountains / Volcano views"),
                           !.travelCompanions = JStr("Family")]}

SpotMunicipalities ==
  {"Tabaco", "TABACO", "tabaco city", "Legazpi City", "Ligao", "Naga"}
SpotLocations == {"Albay", "District 1, Albay"}
BudgetLevels == {"budget", "moderate", "premium", "Moderate"}

SpotPool ==
       {AbsentSpot(f) : f \in AbsentForms}
  \cup {[AbsentSpot(f) EXCEPT !.is_hidden_gem = JBool(FALSE),
                              !.accessibility_friendly = JBool(FALSE)] :
          f \in AbsentForms}
  \cup {[BlankSpot EXCEPT !.municipality = JStr(m), !.location = JStr(l)] :
          m \in SpotMunicipalities, l \in SpotLocations}
  \cup {[BlankSpot EXCEPT !.budget_level = JStr(b)] : b \in BudgetLevels}
  \cup {[BlankSpot EXCEPT !.category = JList(c)] :
          c \in {<<"Nature">>, <<"Adventure", "Hiking">>, <<"Beach", "Food">>}}
  \cup {[BlankSpot EXCEPT !.scenery_type = JList(t)] :
          t \in {<<"Beaches">>, <<"Mountains", "Volcano">>}}
  \cup {[BlankSpot EXCEPT !.is_hidden_gem = JBool(TRUE)],
        [BlankSpot EXCEPT !.accessibility_friendly = JBool(TRUE)],
        [BlankSpot EXCEPT !.rating = JNum(45)]}

AccMunicipalities ==
  {"Tabaco City", "TABACO CITY", "Tabaco", "Legazpi City", "legazpi city", "Naga"}
AccLocations == {"Albay", "District 1"}
PriceRanges ==
  {"Budget", Peso, "Mid-range", Peso \o Peso, "Moderate", "Luxury",
   Peso \o Peso \o Peso, "Premium"}

AccPool ==
       {AbsentAcc(f) : f \in AbsentForms}
  \cup {[BlankAcc EXCEPT !.municipality = JStr(m), !.location = JStr(l)] :
          m \in AccMunicipalities, l \in AccLocations}
  \cup {[BlankAcc EXCEPT !.price_range = JStr(p)] : p \in PriceRanges}
  \cup {[BlankAcc EXCEPT !.category = JList(c)] :
          c \in {<<"Resort">>, <<"Hostel">>, <<"Hotel">>}}
  \cup {[BlankAcc EXCEPT !.amenities = JList(<<"Family room", "Romantic dinner">>)],
        [BlankAcc EXCEPT !.rating = JNum(41)],
        [BlankAcc EXCEPT !.rating = JNum(46)]}

\* tables for ranking: rows drawn from three kinds, repeated periodically
MaxRows == 13
PatternLen == 3

RankPrefs ==
  { [BlankPrefs EXCEPT !.albayDistrict = JStr("District 1"),
                       !.budgetRange = JStr("Moderate"),
                       !.placePreference = JStr("Both")],
    [BlankPrefs EXCEPT !.albayDistrict = JStr("Any District")],
    BlankPrefs }

RankSpotKinds ==
  << [BlankSpot EXCEPT !.municipality = JStr("Tabaco"), !.rating = JNum(45),
                       !.budget_level = JStr("moderate")],
     [BlankSpot EXCEPT !.municipality = JStr("tabaco city")],
     [BlankSpot EXCEPT !.municipality = JStr("Naga"), !.rating = JNum(30)] >>

RankAccKinds ==
  << [BlankAcc EXCEPT !.municipality = JStr("Tabaco City"), !.rating = JNum(46),
                      !.price_range = JStr("Mid-range")],
     [BlankAcc EXCEPT !.municipality = JStr("Tiwi"), !.price_range = JStr("Mid-range")],
     [BlankAcc EXCEPT !.municipality = JStr("Naga"), !.rating = JNum(46)] >>

SpotRecommenders == {"feed", "spotModal", "nearby"}

KindsFor(kind) == IF kind \in SpotRecommenders THEN RankSpotKinds ELSE RankAccKinds

PoolFor(kind) == IF kind \in SpotRecommenders THEN SpotPool ELSE AccPool

\* n rows, row i of the kind pattern[((i - 1) % PatternLen) + 1], id = position
RankTable(kind, pattern, n) ==
  [i \in 1..n |->
     [KindsFor(kind)[pattern[((i - 1) % PatternLen) + 1]] EXCEPT !.id = i]]

RecInit ==
  /\ recKind \in Recommenders
  /\ \/ /\ preferences \in PrefsPool
        /\ \E row \in PoolFor(recKind) : table = <<row>>
     \/ /\ preferences \in RankPrefs
        /\ \E n \in 0..MaxRows : \E pattern \in [1..PatternLen -> 1..3] :
             table = RankTable(recKind, pattern, n)
  /\ scoredRows = <<>>
  /\ shownRows = <<>>
  /\ recToast = "none"
  /\ recOutcome = "pending"
  /\ recLoading = TRUE

\* no recommender mounted
RecIdle ==
  /\ recKind = "none"
  /\ preferences = NoPrefs
  /\ table = <<>>
  /\ scoredRows = <<>>
  /\ shownRows = <<>>
  /\ recToast = "none"
  /\ recOutcome = "pending"
  /\ recLoading = FALSE

\* no itinerary activity
ItinIdle ==
  /\ itineraries = <<>>
  /\ nextItinId = 1
  /\ tab = [c \in Tabs |-> IdleTab]
  /\ started = MaxOps
  /\ selectionToast = "none"
  /\ selectionRequests = 0

-----------------------------------------------------------------------------
(* Claims about the recommenders *)

Scorers == {"feed", "spotModal", "accModal"}

\* null, undefined, empty string, empty list (or a false flag)
Absent(v) ==
  \/ v.t \in {"null", "undef"}
  \/ v.t = "str" /\ v.s = ""
  \/ v.t = "list" /\ v.l = <<>>
  \/ v.t = "bool" /\ v.n = 0

PrefsAllAbsent ==
  /\ preferences.present
  /\ Absent(preferences.albayDistrict) /\ Absent(preferences.travelerType)
  /\ Absent(preferences.activities) /\ Absent(preferences.sceneryPreference)
  /\ Absent(preferences.placePreference) /\ Absent(preferences.budgetRange)
  /\ Absent(preferences.accessibilityNeeded)
  /\ Absent(preferences.travelCompanions)

RowAllAbsent(row) ==
  IF recKind \in SpotRecommenders
  THEN /\ Absent(row.location) /\ Absent(row.municipality) /\ Absent(row.category)
       /\ Absent(row.scenery_type) /\ Absent(row.budget_level)
       /\ Absent(row.is_hidden_gem) /\ Absent(row.accessibility_friendly)
       /\ Absent(row.rating)
  ELSE /\ Absent(row.location) /\ Absent(row.municipality) /\ Absent(row.category)
       /\ Absent(row.amenities) /\ Absent(row.price_range) /\ Absent(row.rating)

Finished == recOutcome = "done"

\* C3: for each scorer (spot modal, accommodation modal, personalized feed),
\* when every optional field of the preferences and of every fetched entity
\* is absent, scoring does not fail and every computed score is 0.
C3_AbsentFieldsScoreZero ==
  (recKind \in Scorers /\ PrefsAllAbsent
     /\ \A i \in 1..Len(table) : RowAllAbsent(table[i]))
  => /\ recOutcome # "threw"
     /\ Finished => Len(scoredRows) = Len(table)
     /\ \A i \in 1..Len(scoredRows) : scoredRows[i].score = 0

C3_Witness ==
  /\ recKind = "feed" /\ PrefsAllAbsent /\ Finished
  /\ Len(table) = 1 /\ RowAllAbsent(table[1])
  /\ Len(scoredRows) = 1 /\ scoredRows[1].score = 0

NamedDistricts == {"District 1", "District 2", "District 3"}

\* the district lookup list the call site keeps
LookupList(kind, district) ==
  IF kind = "recAcc" THEN ExtractMunicipalities(district)
  ELSE DistrictMunicipalities(district)

\* the municipality contains an entry of the list, letter case ignored
MatchesLookup(kind, row, district) ==
  /\ row.municipality.t = "str"
  /\ \E i \in 1..Len(LookupList(kind, district)) :
       Includes(ToLowerCase(row.municipality.s),
                ToLowerCase(LookupList(kind, district)[i]))

DistrictComponent(kind, row) ==
  CASE kind = "feed" -> FeedDistrict(preferences, row)
    [] kind = "spotModal" -> SpotDistrict(preferences, row)
    [] kind = "accModal" -> AccDistrict(preferences, row)

IsShown(row) == \E k \in 1..Len(shownRows) : shownRows[k].id = row.id

\* C4: at every call site that uses the district preference, an entity whose
\* municipality matches the selected district's lookup list, in any letter
\* case, gets a strictly positive district component (scorers) or is
\* retained (filters).
C4_DistrictMatchAtEveryCallSite ==
  (Finished /\ preferences.albayDistrict.t = "str"
     /\ preferences.albayDistrict.s \in NamedDistricts)
  => \A i \in 1..Len(table) :
       MatchesLookup(recKind, table[i], preferences.albayDistrict.s)
       => IF recKind \in Scorers
          THEN DistrictComponent(recKind, table[i]) > 0
          ELSE IF recKind = "nearby"
          THEN Len(table) <= NearbyCount => IsShown(table[i])
          ELSE (Len(table) <= RecAccCount /\ RecBudgetRetains(table[i]))
               => IsShown(table[i])

BudgetDelta(kind, row) ==
  CASE kind = "feed" -> FeedBudget(preferences, row)
    [] kind = "spotModal" -> SpotBudget(preferences, row)
    [] kind = "accModal" -> AccBudget(preferences, row)

\* the entity's budget field is the bucket the table assigns to the preference
InMappedBucket(kind, row) ==
  IF kind = "accModal"
  THEN /\ row.price_range.t = "str"
       /\ \E i \in 1..Len(AccBudgetMap(preferences.budgetRange)) :
            row.price_range.s = AccBudgetMap(preferences.budgetRange)[i]
  ELSE /\ row.budget_level.t = "str"
       /\ ToLowerCase(row.budget_level.s) = FeedBudgetMap(preferences.budgetRange).s

\* C5: a scorer adds the budget delta only to an entity whose budget_level /
\* price_range is the bucket mapped to the budget preference; with
\* "No preference" or no budget preference no entity receives it.
C5_BudgetDeltaOnlyForMappedBucket ==
  (recKind \in Scorers /\ Finished)
  => \A i \in 1..Len(table) :
       BudgetDelta(recKind, table[i]) > 0
       => /\ preferences.budgetRange.t = "str"
          /\ preferences.budgetRange.s \in {"Budget-friendly", "Moderate", "Premium"}
          /\ InMappedBucket(recKind, table[i])

ScoreOf(kind, row) ==
  CASE kind = "feed" -> FeedScore(preferences, row)
    [] kind = "spotModal" -> SpotScore(preferences, row)
    [] kind = "accModal" -> AccScore(preferences, row)
    [] kind = "nearby" -> RatingOrZero(row)

Sorting ==
  \/ recKind \in Scorers
  \/ recKind = "nearby" /\ ~IsStr(preferences.albayDistrict, "Any District")

\* C6: in a recommender's output every entity carries its own score, a higher
\* score precedes a lower one, and entities of equal score keep the relative
\* order of the fetched collection (ids are positions in that collection).
C6_StableDescendingOrder ==
  (Finished /\ Sorting)
  => /\ \A k \in 1..Len(shownRows) :
          /\ shownRows[k].id \in 1..Len(table)
          /\ shownRows[k].score = ScoreOf(recKind, table[shownRows[k].id])
     /\ \A i, j \in 1..Len(shownRows) :
          i < j => \/ shownRows[i].score > shownRows[j].score
                   \/ /\ shownRows[i].score = shownRows[j].score
                      /\ shownRows[i].id < shownRows[j].id

C6_Witness ==
  /\ Finished /\ recKind \in Scorers
  /\ \E i, j \in 1..Len(shownRows) :
       i < j /\ shownRows[i].score = shownRows[j].score
  /\ \E i, j \in 1..Len(shownRows) :
       i < j /\ shownRows[i].score > shownRows[j].score
             /\ shownRows[i].id > shownRows[j].id

Limit(kind) ==
  CASE kind = "spotModal" -> SpotModalCount
    [] kind = "accModal" -> AccModalCount
    [] kind = "feed" -> FeedCount
    [] kind = "nearby" -> NearbyCount
    [] kind = "recAcc" -> RecAccCount

Qualifies(kind, row) ==
  CASE kind = "feed" -> FeedScore(preferences, row) > 0
    [] kind \in {"spotModal", "accModal"} -> TRUE
    [] kind = "nearby" ->
         \/ IsStr(preferences.albayDistrict, "Any District")
         \/ NearbyRetains(preferences.albayDistrict.s, row)
    [] kind = "recAcc" -> RecDistrictRetains(row) /\ RecBudgetRetains(row)

Qualifying == {i \in 1..Len(table) : Qualifies(recKind, table[i])}

\* C7: a recommender shows at most its N entities (12, 10, 8, 6), all of them
\* distinct qualifying entities of the input; it shows min(N, number of
\* qualifying entities); an empty input gives an empty result.
C7_TopN ==
  /\ Len(shownRows) <= Limit(recKind)
  /\ Finished =>
       /\ Len(shownRows) = Min(Limit(recKind), Cardinality(Qualifying))
       /\ \A k \in 1..Len(shownRows) : shownRows[k].id \in Qualifying
       /\ \A i, j \in 1..Len(shownRows) :
            shownRows[i].id = shownRows[j].id => i = j
  /\ (recOutcome \in {"done", "gated"} /\ table = <<>>) => shownRows = <<>>

C7_Witness ==
  /\ Finished /\ recKind = "spotModal"
  /\ Len(table) > SpotModalCount
  /\ Len(shownRows) = SpotModalCount

ZeroScored(rows) == {i \in 1..Len(rows) : rows[i].score = 0}

\* C21: every spot the personalized feed shows has a score above 0, the
\* zero-score spots being removed before the cut to 8; the post-onboarding
\* spot and accommodation modals keep zero-score entities and fill up to
\* their N with them.
C21_FeedDropsZeroScores ==
  /\ recKind = "feed" =>
       /\ ZeroScored(shownRows) = {}
       /\ Finished =>
            Len(shownRows)
              = Min(FeedCount, Len(scoredRows) - Cardinality(ZeroScored(scoredRows)))
  /\ (recKind \in {"spotModal", "accModal"} /\ Finished) =>
       /\ Len(shownRows) = Min(Limit(recKind), Len(scoredRows))
       /\ (Len(scoredRows) <= Limit(recKind))
            => Cardinality(ZeroScored(shownRows))
                 = Cardinality(ZeroScored(scoredRows))

\* the feed has dropped zero-score spots and still shows its 8
C21_Witness ==
  /\ recKind = "feed" /\ Finished
  /\ ZeroScored(scoredRows) # {}
  /\ Len(shownRows) = FeedCount

\* C13: whenever a recommender's entity fetch fails, a notification is shown
\* and the recommender's result set is empty afterwards, also when an earlier
\* fetch had succeeded and the failing one is a re-fetch.
C13_FetchFailureEmptiesResult ==
  (recKind \in Recommenders /\ recOutcome = "error") =>
     (recToast = "failed" /\ shownRows = <<>>)

\* C12: for any preferences value (missing, empty, or with fields of an
\* unexpected shape such as sceneryPreference or travelerType held as a list,
\* or activities not a list) scoring never throws: whenever the entity fetch
\* of a scoring recommender succeeded, a ranked result is produced and no
\* failure is reported.
C12_ScoringNeverThrows ==
  (recKind \in {"spotModal", "accModal"} /\ ~recLoading) =>
     (recOutcome # "threw" /\ (recOutcome # "error" => recToast = "none"))

\* C20: once the feed's fetch has finished, stored preferences that are
\* absent or whose autoRecommendations flag is not true leave the feed empty
\* with the tourist-spot collection not fetched; a non-empty feed has the
\* flag true.
C20_FeedGate ==
  (recKind = "feed" /\ ~recLoading) =>
    /\ (~preferences.present \/ preferences.autoRecommendations # JBool(TRUE))
         => (shownRows = <<>> /\ recOutcome = "gated" /\ recToast = "none")
    /\ shownRows # <<>>
         => (preferences.present /\ preferences.autoRecommendations = JBool(TRUE))

\* a feed that had loaded rows is fetched again for preferences with the
\* flag off and ends empty
C20_Witness ==
  /\ recKind = "feed" /\ ~recLoading /\ recOutcome = "gated"
  /\ preferences.present
  /\ preferences.autoRecommendations = JBool(FALSE)
  /\ scoredRows # <<>>
  /\ shownRows = <<>>

-----------------------------------------------------------------------------
(* BulkImport.parseCSV *)

\* String.prototype.indexOf(ch) + 1
FirstIndex(s, ch) ==
  IF \E i \in 1..Len(s) : SubSeq(s, i, i) = ch
  THEN CHOOSE i \in 1..Len(s) :
         /\ SubSeq(s, i, i) = ch
         /\ \A j \in 1..(i - 1) : SubSeq(s, j, j) # ch
  ELSE 0

\* String.prototype.split(sep), sep one character
RECURSIVE Split(_, _)
Split(s, sep) ==
  IF FirstIndex(s, sep) = 0 THEN <<s>>
  ELSE <<SubSeq(s, 1, FirstIndex(s, sep) - 1)>>
         \o Split(SubSeq(s, FirstIndex(s, sep) + 1, Len(s)), sep)

StartsWith(s, prefix) == Len(s) >= Len(prefix) /\ SubSeq(s, 1, Len(prefix)) = prefix

EndsWith(s, suffix) ==
  Len(s) >= Len(suffix) /\ SubSeq(s, Len(s) - Len(suffix) + 1, Len(s)) = suffix

JsonFail == [ok |-> FALSE, l |-> <<>>]

\* the elements of a JSON array after the opening bracket: string literals
\* separated by commas.  A literal holding a backslash or a control character,
\* and any element that is not a string literal, is reported as a failure;
\* the files drawn below hold no number, boolean, null, nested or escaped
\* element.
RECURSIVE JsonElements(_, _)
JsonElements(s, acc) ==
  IF Len(s) < 2 \/ SubSeq(s, 1, 1) # "\"" THEN JsonFail
  ELSE LET close == FirstIndex(SubSeq(s, 2, Len(s)), "\"") + 1
           literal == SubSeq(s, 2, close - 1)
           rest == TrimStart(SubSeq(s, close + 1, Len(s)))
       IN IF close = 1 THEN JsonFail
          ELSE IF \E i \in 1..Len(literal) :
                    SubSeq(literal, i, i) \in {"\\", "\t", "\r", "\n"}
          THEN JsonFail
          ELSE IF Len(rest) = 0 THEN [ok |-> TRUE, l |-> Append(acc, literal)]
          ELSE IF SubSeq(rest, 1, 1) = ","
          THEN JsonElements(TrimStart(SubSeq(rest, 2, Len(rest))),
                            Append(acc, literal))
          ELSE JsonFail

\* JSON.parse of a text that starts with [ and ends with ]
JsonParseArray(value) ==
  LET inner == Trim(SubSeq(value, 2, Len(value) - 1))
  IN IF Len(value) < 2 THEN JsonFail
     ELSE IF Len(inner) = 0 THEN [ok |-> TRUE, l |-> <<>>]
     ELSE JsonElements(inner, <<>>)

\* the body of headers.forEach: the value stored under one header
ParseValueKeepText(values, index) ==
  LET raw == IF index <= Len(values) THEN Trim(values[index]) ELSE ""
  IN IF raw = "" \/ raw = "\"\"" THEN JNull ELSE JStr(raw)
ParseValue(values, index) ==
  LET raw == IF index <= Len(values) THEN Trim(values[index]) ELSE ""
      value == IF raw = "" THEN JNull ELSE JStr(raw)
      parsed == IF /\ Truthy(value) /\ StartsWith(raw, "[") /\ EndsWith(raw, "]")
                   /\ JsonParseArray(raw).ok
                THEN JList(JsonParseArray(raw).l)
                ELSE value
  IN IF IsStr(parsed, "") \/ IsStr(parsed, "\"\"") THEN JNull ELSE parsed

\* obj[header] = value for each header in turn: the last column of a name wins
LastColumn(headers, name) ==
  CHOOSE i \in 1..Len(headers) :
    /\ headers[i] = name
    /\ \A j \in (i + 1)..Len(headers) : headers[j] # name

ParseCSV(text) ==
  LET lines == Split(Trim(text), "\n")
      headers == [i \in 1..Len(Split(lines[1], ";")) |->
                    Trim(Split(lines[1], ";")[i])]
  IN IF Len(lines) < 2 THEN <<>>
     ELSE [r \in 1..(Len(lines) - 1) |->
             [name \in {headers[i] : i \in 1..Len(headers)} |->
                ParseValue(Split(lines[r + 1], ";"), LastColumn(headers, name))]]

\* the text of a file: fields joined by ";", lines joined by the line ending
Serialize(file) ==
  Join(<<Join(file.header, ";")>>
         \o [r \in 1..Len(file.rows) |-> Join(file.rows[r], ";")],
       file.eol)
    \o (IF file.final THEN file.eol ELSE "")

MaxCsvRows == 2

CsvHeaders == { <<"name", "category">>, <<" name ", "category ">>, <<"name">> }

CsvRowPool ==
  { <<"Spot A", "[\"Nature\",\"Adventure\"]">>,
    <<" Spot B ", "[]">>,
    <<"Spot C", "[Nature]">>,
    <<"Spot D", "[\"a\",]">>,
    <<"\"\"", "x">>,
    <<"", " ">>,
    <<" ">>,
    <<"">>,
    <<"Spot E">>,
    <<"Spot F", " [ \"Beach\" , \"Food\" ] ", "extra">>,
    <<"[bad", "ok]">>,
    <<"\"quoted\"", "[\"x\"] ">> }

CsvFiles ==
  UNION { [header : CsvHeaders, rows : [1..n -> CsvRowPool],
           eol : {"\n", "\r\n"}, final : BOOLEAN] : n \in 0..MaxCsvRows }

\* parseCSV(text)
ParseCsvFile ==
  /\ ~csvParsed
  /\ csvData' = ParseCSV(Serialize(csvFile))
  /\ csvParsed' = TRUE
  /\ UNCHANGED <<csvFile, notCsvVars>>

CsvInit ==
  /\ csvFile \in CsvFiles
  /\ csvData = <<>>
  /\ csvParsed = FALSE

\* no file chosen
CsvIdle ==
  /\ csvFile = [header |-> <<"name">>, rows |-> <<>>, eol |-> "\n", final |-> FALSE]
  /\ csvData = <<>>
  /\ csvParsed = TRUE

-----------------------------------------------------------------------------
(* BulkImport.handleFileUpload: batched insert *)

batchSize == 50

MaxImportRows == 120

ImportTypes == {"accommodations", "tourist_spots", "restaurants", "events"}

\* errorCount += batch.length / successCount += batch.length
ErrorCountPerBatch(error, count, batch) == IF error THEN count + 1 ELSE count
ErrorCountAfter(error, count, batch) ==
  IF error THEN count + Cardinality(batch) ELSE count

SuccessCountAfter(error, count, batch) ==
  IF error THEN count ELSE count + Cardinality(batch)

\* cleanedData.slice(i, i + batchSize), as the set of record numbers
BatchAt(i) ==
  {k \in 1..importRows : i < k /\ k <= i + batchSize}

\* <Select value={selectedType} onValueChange={setSelectedType}>
SelectType(type) ==
  /\ selectedType # type
  /\ selectedType' = type
  /\ UNCHANGED <<importRows, importTable, importing, importPc, importIdx,
                 successCount, errorCount, persistedRows, insertLog,
                 importToast, notImportVars>>

\* handleFileUpload up to its first insert request.  The file input is
\* disabled while importing or with no type selected.
HandleFileUpload(hasFile, readOk) ==
  /\ importPc = "idle"
  /\ ~importing /\ selectedType # ""
  /\ IF ~hasFile
     THEN /\ importToast' = "select"
          /\ UNCHANGED <<importTable, importPc, importIdx, successCount, errorCount>>
     ELSE IF ~readOk
     THEN /\ importToast' = "failed"
          /\ UNCHANGED <<importTable, importPc, importIdx, successCount, errorCount>>
     ELSE IF importRows = 0
     THEN /\ importToast' = "nodata"
          /\ UNCHANGED <<importTable, importPc, importIdx, successCount, errorCount>>
     ELSE IF selectedType \notin ImportTypes
     THEN /\ importToast' = "invalid"
          /\ UNCHANGED <<importTable, importPc, importIdx, successCount, errorCount>>
     ELSE /\ importTable' = selectedType
          /\ importPc' = "loop"
          /\ importIdx' = 0
          /\ successCount' = 0
          /\ errorCount' = 0
          /\ UNCHANGED importToast
  /\ importing' = (importPc' = "loop")
  /\ UNCHANGED <<importRows, selectedType, persistedRows, insertLog, notImportVars>>

\* one insert request resolves; the loop goes on or the handler finishes
InsertBatch(ok) ==
  /\ importPc = "loop"
  /\ LET batch == BatchAt(importIdx)
         error == ~ok
     IN /\ insertLog' = Append(insertLog,
                          [first |-> importIdx + 1, size |-> Cardinality(batch),
                           error |-> error])
        /\ errorCount' = ErrorCountAfter(error, errorCount, batch)
        /\ successCount' = SuccessCountAfter(error, successCount, batch)
        /\ persistedRows' = IF error THEN persistedRows ELSE persistedRows \cup batch
  /\ importIdx' = importIdx + batchSize
  /\ IF importIdx' < importRows
     THEN UNCHANGED <<importPc, importing, importToast>>
     ELSE /\ importPc' = "done"
          /\ importing' = FALSE
          /\ importToast' = "complete"
  /\ UNCHANGED <<importRows, importTable, selectedType, notImportVars>>

ImportNext ==
  \/ \E type \in ImportTypes : SelectType(type)
  \/ \E hasFile, readOk \in BOOLEAN : HandleFileUpload(hasFile, readOk)
  \/ \E ok \in BOOLEAN : InsertBatch(ok)

ImportInit ==
  /\ importRows \in 0..MaxImportRows
  /\ importTable = ""
  /\ selectedType = ""
  /\ importing = FALSE
  /\ importPc = "idle"
  /\ importIdx = 0
  /\ successCount = 0
  /\ errorCount = 0
  /\ persistedRows = {}
  /\ insertLog = <<>>
  /\ importToast = "none"

\* the import page is not open
ImportIdle == ImportInit /\ importRows = 0

-----------------------------------------------------------------------------
(* BulkImport.handleFileUpload: cleaning the numeric fields *)

Digits == {"0", "1", "2", "3", "4", "5", "6", "7", "8", "9"}

\* the length of the run of digits s starts with
RECURSIVE DigitRun(_)
DigitRun(s) ==
  IF Len(s) > 0 /\ SubSeq(s, 1, 1) \in Digits
  THEN 1 + DigitRun(SubSeq(s, 2, Len(s)))
  ELSE 0

NaN == [t |-> "nan", s |-> "", l |-> <<>>, n |-> 0]

\* the number written by a decimal literal
NumberOf(literal) == [t |-> "num", s |-> literal, l |-> <<>>, n |-> 0]

\* String(v) for a text or a list of texts
ToText(v) == IF v.t = "list" THEN Join(v.l, ",") ELSE v.s

\* parseFloat(v): the longest decimal literal the text starts with after
\* its leading white space (sign, digits, a point and digits), or NaN when
\* there is none.  The fields drawn below hold no exponent.
ParseFloat(v) ==
  LET text == TrimStart(ToText(v))
      signed == Len(text) > 0 /\ SubSeq(text, 1, 1) \in {"-", "+"}
      body == IF signed THEN SubSeq(text, 2, Len(text)) ELSE text
      whole == DigitRun(body)
      pointed == Len(body) > whole /\ SubSeq(body, whole + 1, whole + 1) = "."
      fraction == IF pointed THEN DigitRun(SubSeq(body, whole + 2, Len(body)))
                  ELSE 0
      length == IF fraction > 0 THEN whole + 1 + fraction ELSE whole
  IN IF StartsWith(body, "Infinity")
     THEN NumberOf(SubSeq(text, 1, (IF signed THEN 1 ELSE 0) + 8))
     ELSE IF whole + fraction = 0 THEN NaN
     ELSE NumberOf(SubSeq(text, 1, (IF signed THEN 1 ELSE 0) + length))

\* item.rating ? parseFloat(item.rating) : 0
NumberOrFallback(v, fallback) == IF Truthy(v) THEN ParseFloat(v) ELSE fallback

\* the texts a numeric column of the file can hold
NumberTexts ==
  {"", " ", "4.5", "5", "-13.25", "0", "N/A", "4,5", "4.5 stars", ".5",
   "abc", "[]", "[\"4\"]", "[\"x\"]", "\"\""}

NumericColumns == <<"rating", "latitude", "longitude">>

\* cleanedData = data.map(...) for accommodations and tourist_spots
CleanRecord ==
  /\ ~cleanDone
  /\ cleanType \in {"accommodations", "tourist_spots"}
  /\ cleanedRecord' =
       [rating |-> NumberOrFallback(cleanItem.rating, NumberOf("0")),
        latitude |-> NumberOrFallback(cleanItem.latitude, JNull),
        longitude |-> NumberOrFallback(cleanItem.longitude, JNull)]
  /\ cleanDone' = TRUE
  /\ UNCHANGED <<cleanType, cleanItem, notCleanVars>>

NoRecord == [rating |-> JUndef, latitude |-> JUndef, longitude |-> JUndef]

\* one data row of the file has been parsed; a column the header does not
\* name is undefined in the record
CleanInit ==
  /\ cleanType \in {"accommodations", "tourist_spots"}
  /\ \E row \in [1..3 -> NumberTexts] : \E named \in SUBSET (1..3) :
       cleanItem =
         [rating |-> IF 1 \in named THEN ParseValue(row, 1) ELSE JUndef,
          latitude |-> IF 2 \in named THEN ParseValue(row, 2) ELSE JUndef,
          longitude |-> IF 3 \in named THEN ParseValue(row, 3) ELSE JUndef]
  /\ cleanedRecord = NoRecord
  /\ cleanDone = FALSE

\* no record is being cleaned
CleanIdle ==
  /\ cleanType = ""
  /\ cleanItem = NoRecord
  /\ cleanedRecord = NoRecord
  /\ cleanDone = TRUE

IsNumber(v) == v.t = "num"

\* C22: in every imported accommodation and tourist-spot record, rating is
\* a number (0 when the field does not parse) and latitude and longitude are
\* each a number or null; not-a-number never reaches the insert.
C22_NumericFallback ==
  cleanDone /\ cleanType # "" =>
    /\ IsNumber(cleanedRecord.rating)
    /\ IsNumber(cleanedRecord.latitude) \/ cleanedRecord.latitude = JNull
    /\ IsNumber(cleanedRecord.longitude) \/ cleanedRecord.longitude = JNull

-----------------------------------------------------------------------------
(* The post-onboarding selection modals: fetch, selection and save *)

MaxPrefsVersions == 3

PickKinds == {"favorites", "spotItinerary", "accItinerary"}

PickIds == 1..3

\* the ranked lists a fetch can produce, depending on the preferences it
\* was called with and on the table at that moment
ResultPool == { <<>>, <<1, 2>>, <<2, 3>>, <<3, 1, 2>> }

\* handleAutoSelect: spots.slice(0, 6) / accommodations.slice(0, 4)
AutoSelectCount(kind) == IF kind = "accItinerary" THEN 4 ELSE 6

Ids(rows) == {rows[i] : i \in 1..Len(rows)}

NoSave == [pending |-> FALSE, items |-> {}, size |-> 0]

\* the parent passes a new preferences object while the modal is open: the
\* effect on [open, preferences] calls the fetch of that render
PreferencesChange ==
  /\ pickKind \in PickKinds
  /\ prefsVersion < MaxPrefsVersions
  /\ prefsVersion' = prefsVersion + 1
  /\ fetchesInFlight' = fetchesInFlight \cup {prefsVersion + 1}
  /\ fetchingSpots' = TRUE
  /\ UNCHANGED <<pickKind, modalSpots, shownVersion, selectedSpots,
                 modalLoading, saveRequest, savedItems, reportedCount,
                 notPickVars>>

\* fetchRecommendedSpots / fetchRecommendedAccommodations, from the response
\* of the fetch called with preferences version v to its finally block
FetchReturn(v, ok, rows) ==
  /\ v \in fetchesInFlight
  /\ fetchesInFlight' = fetchesInFlight \ {v}
  /\ IF ok
     THEN modalSpots' = rows /\ shownVersion' = v
     ELSE UNCHANGED <<modalSpots, shownVersion>>
  /\ fetchingSpots' = FALSE
  /\ UNCHANGED <<pickKind, prefsVersion, selectedSpots, modalLoading,
                 saveRequest, savedItems, reportedCount, notPickVars>>

\* toggleSpot / toggleAccommodation of a displayed card
ToggleSpot(id) ==
  /\ pickKind \in PickKinds
  /\ ~fetchingSpots
  /\ id \in Ids(modalSpots)
  /\ selectedSpots' = IF id \in selectedSpots THEN selectedSpots \ {id}
                      ELSE selectedSpots \cup {id}
  /\ UNCHANGED <<pickKind, prefsVersion, fetchesInFlight, modalSpots,
                 shownVersion, fetchingSpots, modalLoading, saveRequest,
                 savedItems, reportedCount, notPickVars>>

\* handleAutoSelect
HandleAutoSelect ==
  /\ pickKind \in PickKinds
  /\ ~fetchingSpots
  /\ selectedSpots' = Ids(Slice(modalSpots, AutoSelectCount(pickKind)))
  /\ UNCHANGED <<pickKind, prefsVersion, fetchesInFlight, modalSpots,
                 shownVersion, fetchingSpots, modalLoading, saveRequest,
                 savedItems, reportedCount, notPickVars>>

\* what the handler puts in its insert: one favorite per selected id, or the
\* displayed entities whose id is selected
SaveItems(kind, rows, selected) ==
  IF kind = "favorites" THEN selected ELSE Ids(rows) \cap selected

\* handleSaveToFavorites / handleCreateItinerary up to the insert request;
\* the button is disabled while loading or with nothing selected
HandleSave ==
  /\ pickKind \in PickKinds
  /\ ~fetchingSpots
  /\ ~modalLoading
  /\ selectedSpots # {}
  /\ modalLoading' = TRUE
  /\ saveRequest' = [pending |-> TRUE,
                     items |-> SaveItems(pickKind, modalSpots, selectedSpots),
                     size |-> Cardinality(selectedSpots)]
  /\ UNCHANGED <<pickKind, prefsVersion, fetchesInFlight, modalSpots,
                 shownVersion, selectedSpots, fetchingSpots, savedItems,
                 reportedCount, notPickVars>>

\* the insert returns; the notification names selectedSpots.size of the
\* render in which the handler was called
SaveReturn(ok) ==
  /\ saveRequest.pending
  /\ IF ok
     THEN savedItems' = saveRequest.items /\ reportedCount' = saveRequest.size
     ELSE UNCHANGED <<savedItems, reportedCount>>
  /\ modalLoading' = FALSE
  /\ saveRequest' = NoSave
  /\ UNCHANGED <<pickKind, prefsVersion, fetchesInFlight, modalSpots,
                 shownVersion, selectedSpots, fetchingSpots, notPickVars>>

PickNext ==
  \/ PreferencesChange
  \/ \E v \in 1..MaxPrefsVersions, ok \in BOOLEAN, rows \in ResultPool :
       FetchReturn(v, ok, rows)
  \/ \E id \in PickIds : ToggleSpot(id)
  \/ HandleAutoSelect
  \/ HandleSave
  \/ \E ok \in BOOLEAN : SaveReturn(ok)

\* the modal has been opened with its first preferences: the first fetch is
\* in flight
PickInit ==
  /\ pickKind \in PickKinds
  /\ prefsVersion = 1
  /\ fetchesInFlight = {1}
  /\ modalSpots = <<>>
  /\ shownVersion = 0
  /\ selectedSpots = {}
  /\ fetchingSpots = TRUE
  /\ modalLoading = FALSE
  /\ saveRequest = NoSave
  /\ savedItems = {}
  /\ reportedCount = -1

\* no modal is open
PickIdle ==
  /\ pickKind = "none"
  /\ prefsVersion = 0
  /\ fetchesInFlight = {}
  /\ modalSpots = <<>>
  /\ shownVersion = 0
  /\ selectedSpots = {}
  /\ fetchingSpots = FALSE
  /\ modalLoading = FALSE
  /\ saveRequest = NoSave
  /\ savedItems = {}
  /\ reportedCount = -1

\* C24: the displayed recommendations are those of the most recently
\* supplied preferences: the result of an older fetch never replaces the
\* result of a newer one, whatever order the responses arrive in.
C24_NewestResultStays == [][shownVersion' >= shownVersion]_vars

\* C28: the selected ids are always among the displayed ids, so the number
\* of items saved equals the selected count reported to the user.
C28_SelectionDisplayed ==
  /\ selectedSpots \subseteq Ids(modalSpots)
  /\ reportedCount # -1 => Cardinality(savedItems) = reportedCount

-----------------------------------------------------------------------------
(* OnboardingModal: the two wizard variants *)

totalSteps == 10

WizardVariants == {"district", "pace"}

\* initial preferences of the variant with the district step
DistrictWizardPreferences ==
  [albayDistrict |-> "", travelerType |-> "", activities |-> <<>>,
   sceneryPreference |-> "", placePreference |-> "", budgetRange |-> "",
   accessibilityNeeded |-> FALSE, travelMode |-> "", travelCompanions |-> "",
   autoRecommendations |-> TRUE]

\* initial preferences of the variant with the travel pace step
PaceWizardPreferences ==
  [travelerType |-> <<>>, activities |-> <<>>, travelDistance |-> "",
   budgetRange |-> "", placePreference |-> "", accessibilityNeeded |-> FALSE,
   sceneryPreference |-> <<>>, travelPace |-> "", travelCompanions |-> "",
   autoRecommendations |-> TRUE]

InitialPreferences(variant) ==
  IF variant = "district" THEN DistrictWizardPreferences ELSE PaceWizardPreferences

\* the field whose controls renderStep shows at a step
StepField(variant, s) ==
  IF variant = "district"
  THEN <<"albayDistrict", "travelerType", "activities", "sceneryPreference",
         "placePreference", "budgetRange", "accessibilityNeeded", "travelMode",
         "travelCompanions", "autoRecommendations">>[s]
  ELSE <<"travelerType", "activities", "travelDistance", "budgetRange",
         "placePreference", "accessibilityNeeded", "sceneryPreference",
         "travelPace", "travelCompanions", "autoRecommendations">>[s]

MultiSelectFields(variant) ==
  IF variant = "district" THEN {"activities"}
  ELSE {"travelerType", "activities", "sceneryPreference"}

\* options offered for a field (a selection of the rendered lists)
Options(variant, field) ==
  CASE field = "albayDistrict" -> {"District 1", "Any District"}
    [] field = "travelerType" ->
         IF variant = "district" THEN {"Nature Lover"}
         ELSE {"Adventure Seeker", "Nature Lover"}
    [] field = "activities" ->
         IF variant = "district"
         THEN {"Sightseeing / Viewpoints", "Festivals / Local Events"}
         ELSE {"Hiking"}
    [] field = "sceneryPreference" ->
         IF variant = "district" THEN {"Beaches / Coastlines"} ELSE {"Beach"}
    [] field = "placePreference" ->
         IF variant = "district"
         THEN {"Popular Tourist Spots", "Hidden Gems"}
         ELSE {"Popular", "Hidden Gems"}
    [] field = "budgetRange" -> {"Moderate"}
    [] field = "travelMode" -> {"Any mode is fine"}
    [] field = "travelDistance" -> {"Within my city"}
    [] field = "travelPace" -> {"Balanced"}
    [] field = "travelCompanions" -> {"Solo"}
    [] field \in {"accessibilityNeeded", "autoRecommendations"} -> BOOLEAN

\* canProceed() with the step, the variant and the preferences named
canProceedAt(variant, s, prefs) ==
  IF variant = "district"
  THEN CASE s = 1 -> prefs.albayDistrict # ""
         [] s = 2 -> prefs.travelerType # ""
         [] s = 3 -> Len(prefs.activities) > 0
         [] s = 4 -> prefs.sceneryPreference # ""
         [] s = 5 -> prefs.placePreference # ""
         [] s = 6 -> prefs.budgetRange # ""
         [] s = 7 -> TRUE
         [] s = 8 -> prefs.travelMode # ""
         [] s = 9 -> prefs.travelCompanions # ""
         [] s = 10 -> TRUE
         [] OTHER -> FALSE
  ELSE CASE s = 1 -> Len(prefs.travelerType) > 0
         [] s = 2 -> Len(prefs.activities) > 0
         [] s = 3 -> prefs.travelDistance # ""
         [] s = 4 -> prefs.budgetRange # ""
         [] s = 5 -> prefs.placePreference # ""
         [] s = 6 -> TRUE
         [] s = 7 -> Len(prefs.sceneryPreference) > 0
         [] s = 8 -> prefs.travelPace # ""
         [] s = 9 -> prefs.travelCompanions # ""
         [] s = 10 -> TRUE
         [] OTHER -> FALSE

canProceed == canProceedAt(wizVariant, step, wizPreferences)

\* disabled={loading} of the Back button
BackDisabledWhenInvalid == wizLoading \/ ~canProceed
BackDisabled == wizLoading

\* disabled={!canProceed() || loading} of Continue and Complete Setup
ForwardDisabled == ~canProceed \/ wizLoading

\* setPreferences({ ...preferences, [field]: value })
SetPreference(field, value) ==
  /\ wizOpen
  /\ field = StepField(wizVariant, step)
  /\ field \notin MultiSelectFields(wizVariant)
  /\ value \in Options(wizVariant, field)
  /\ wizPreferences' = [wizPreferences EXCEPT ![field] = value]
  /\ UNCHANGED <<wizVariant, step, wizLoading, wizOpen, wizPayload, profile,
                 wizToast, notWizVars>>

\* current.includes(value) ? current.filter(v => v !== value) : [...current, value]
ToggleMultiSelect(field, value) ==
  /\ wizOpen
  /\ field = StepField(wizVariant, step)
  /\ field \in MultiSelectFields(wizVariant)
  /\ value \in Options(wizVariant, field)
  /\ LET current == wizPreferences[field]
     IN wizPreferences' =
          [wizPreferences EXCEPT ![field] =
             IF \E i \in 1..Len(current) : current[i] = value
             THEN SelectSeq(current, LAMBDA v : v # value)
             ELSE Append(current, value)]
  /\ UNCHANGED <<wizVariant, step, wizLoading, wizOpen, wizPayload, profile,
                 wizToast, notWizVars>>

\* a Continue button that is never disabled
ContinueAlways ==
  /\ wizOpen
  /\ step < totalSteps
  /\ step' = step + 1
  /\ UNCHANGED <<wizVariant, wizLoading, wizPreferences, wizOpen, wizPayload,
                 profile, wizToast, notWizVars>>

\* Continue: setStep(step + 1)
Continue ==
  /\ wizOpen
  /\ step < totalSteps
  /\ ~ForwardDisabled
  /\ step' = step + 1
  /\ UNCHANGED <<wizVariant, wizLoading, wizPreferences, wizOpen, wizPayload,
                 profile, wizToast, notWizVars>>

\* Back: setStep(step - 1)
Back ==
  /\ wizOpen
  /\ step > 1
  /\ ~BackDisabled
  /\ step' = step - 1
  /\ UNCHANGED <<wizVariant, wizLoading, wizPreferences, wizOpen, wizPayload,
                 profile, wizToast, notWizVars>>

\* the open prop turns false without a submit (the page is left or the parent
\* unmounts the modal); the modal itself has no close control
Abandon ==
  /\ wizOpen
  /\ wizOpen' = FALSE
  /\ UNCHANGED <<wizVariant, step, wizLoading, wizPreferences, wizPayload,
                 profile, wizToast, notWizVars>>

NoPayload == [sent |-> FALSE, user_preferences |-> <<>>]

\* a submit that sends the initial preferences instead of the accumulated ones
HandleSubmitInitial ==
  /\ wizOpen
  /\ ~(step < totalSteps)
  /\ ~ForwardDisabled
  /\ wizLoading' = TRUE
  /\ wizPayload' = [sent |-> TRUE,
                    user_preferences |-> InitialPreferences(wizVariant)]
  /\ UNCHANGED <<wizVariant, step, wizPreferences, wizOpen, profile, wizToast,
                 notWizVars>>

\* Complete Setup: handleSubmit up to its update request
HandleSubmit ==
  /\ wizOpen
  /\ ~(step < totalSteps)
  /\ ~ForwardDisabled
  /\ wizLoading' = TRUE
  /\ wizPayload' = [sent |-> TRUE, user_preferences |-> wizPreferences]
  /\ UNCHANGED <<wizVariant, step, wizPreferences, wizOpen, profile, wizToast,
                 notWizVars>>

\* the update request resolves; onComplete is the parent's callback, which
\* may or may not close the modal
SubmitResolve(ok, closes) ==
  /\ wizPayload.sent
  /\ IF ok
     THEN /\ profile' = [user_preferences |-> wizPayload.user_preferences,
                         onboarding_complete |-> TRUE]
          /\ wizToast' = "saved"
          /\ wizOpen' = (wizOpen /\ ~closes)
     ELSE /\ wizToast' = "failed"
          /\ UNCHANGED <<profile, wizOpen>>
  /\ wizLoading' = FALSE
  /\ wizPayload' = NoPayload
  /\ UNCHANGED <<wizVariant, step, wizPreferences, notWizVars>>

FlagFields == {"accessibilityNeeded", "autoRecommendations"}

WizFields(variant) == {StepField(variant, s) : s \in 1..totalSteps} \ FlagFields

WizValues ==
  UNION {UNION {Options(variant, field) : field \in WizFields(variant)} :
           variant \in WizardVariants}

WizNext ==
  \/ \E field \in WizFields(wizVariant), value \in WizValues :
       SetPreference(field, value)
  \/ \E field \in FlagFields, value \in BOOLEAN : SetPreference(field, value)
  \/ \E field \in WizFields(wizVariant), value \in WizValues :
       ToggleMultiSelect(field, value)
  \/ Continue
  \/ Back
  \/ Abandon
  \/ HandleSubmit
  \/ \E ok, closes \in BOOLEAN : SubmitResolve(ok, closes)

NoProfile == [user_preferences |-> <<>>, onboarding_complete |-> FALSE]

WizInit ==
  /\ wizVariant \in WizardVariants
  /\ step = 1
  /\ wizLoading = FALSE
  /\ wizPreferences = InitialPreferences(wizVariant)
  /\ wizOpen = TRUE
  /\ wizPayload = NoPayload
  /\ profile = NoProfile
  /\ wizToast = "none"

\* no wizard mounted
WizIdle ==
  /\ wizVariant = "none"
  /\ step = 1
  /\ wizLoading = FALSE
  /\ wizPreferences = DistrictWizardPreferences
  /\ wizOpen = FALSE
  /\ wizPayload = NoPayload
  /\ profile = NoProfile
  /\ wizToast = "none"

-----------------------------------------------------------------------------
(* UserManagement: the create-user dialog *)

EmptyUser ==
  [firstName |-> "", lastName |-> "", middleInitial |-> "", email |-> "",
   password |-> "", confirmPassword |-> ""]

\* texts typed into a field of the form
Typed(field) ==
  CASE field = "firstName" -> {"", "Ana"}
    [] field = "lastName" -> {"", "Cruz"}
    [] field = "middleInitial" -> {"", "B", "BC"}
    [] field = "email" -> {"", "ana@albay.ph"}
    [] field = "password" -> {"", "pw1"}
    [] field = "confirmPassword" -> {"", "pw1", "pw2"}

UserFields == DOMAIN EmptyUser

\* onChange of a field; the middle initial keeps e.target.value.slice(0, 1)
SetNewUser(field, text) ==
  /\ isCreateDialogOpen
  /\ text \in Typed(field)
  /\ newUser' = [newUser EXCEPT ![field] =
                   IF field = "middleInitial" THEN Slice(text, 1) ELSE text]
  /\ newUser' # newUser
  /\ UNCHANGED <<isCreateDialogOpen, isCreating, createRequest, accounts,
                 userToast, notUserVars>>

NoRequest == [sent |-> FALSE, body |-> EmptyUser]

\* a handler without the password confirmation check
HandleCreateUserNoConfirm ==
  /\ isCreateDialogOpen /\ ~isCreating
  /\ IF \/ newUser.email = "" \/ newUser.password = ""
        \/ newUser.firstName = "" \/ newUser.lastName = ""
     THEN /\ userToast' = "required"
          /\ UNCHANGED <<isCreating, createRequest>>
     ELSE /\ isCreating' = TRUE
          /\ createRequest' = [sent |-> TRUE, body |-> newUser]
          /\ UNCHANGED userToast
  /\ UNCHANGED <<newUser, isCreateDialogOpen, accounts, notUserVars>>

\* handleCreateUser up to its request; the Create button is disabled while
\* isCreating
HandleCreateUser ==
  /\ isCreateDialogOpen /\ ~isCreating
  /\ IF \/ newUser.email = "" \/ newUser.password = ""
        \/ newUser.firstName = "" \/ newUser.lastName = ""
     THEN /\ userToast' = "required"
          /\ UNCHANGED <<isCreating, createRequest>>
     ELSE IF newUser.password # newUser.confirmPassword
     THEN /\ userToast' = "mismatch"
          /\ UNCHANGED <<isCreating, createRequest>>
     ELSE IF newUser.middleInitial # "" /\ Len(newUser.middleInitial) > 1
     THEN /\ userToast' = "initial"
          /\ UNCHANGED <<isCreating, createRequest>>
     ELSE /\ isCreating' = TRUE
          /\ createRequest' = [sent |-> TRUE, body |-> newUser]
          /\ UNCHANGED userToast
  /\ UNCHANGED <<newUser, isCreateDialogOpen, accounts, notUserVars>>

\* the admin-create-user request returns
CreateUserResolve(ok) ==
  /\ createRequest.sent
  /\ IF ok
     THEN /\ accounts' = accounts \cup {createRequest.body.email}
          /\ userToast' = "created"
          /\ isCreateDialogOpen' = FALSE
          /\ newUser' = EmptyUser
     ELSE /\ userToast' = "failed"
          /\ UNCHANGED <<accounts, isCreateDialogOpen, newUser>>
  /\ isCreating' = FALSE
  /\ createRequest' = NoRequest
  /\ UNCHANGED notUserVars

UserNext ==
  \/ \E field \in UserFields, text \in {"", "Ana", "Cruz", "B", "BC",
                                         "ana@albay.ph", "pw1", "pw2"} :
       SetNewUser(field, text)
  \/ HandleCreateUser
  \/ \E ok \in BOOLEAN : CreateUserResolve(ok)

\* the dialog has just been opened
UserInit ==
  /\ newUser = EmptyUser
  /\ isCreateDialogOpen = TRUE
  /\ isCreating = FALSE
  /\ createRequest = NoRequest
  /\ accounts = {}
  /\ userToast = "none"

\* the dialog is closed
UserIdle ==
  /\ newUser = EmptyUser
  /\ isCreateDialogOpen = FALSE
  /\ isCreating = FALSE
  /\ createRequest = NoRequest
  /\ accounts = {}
  /\ userToast = "none"

-----------------------------------------------------------------------------
(* Navbar and AdminDashboard: the admin role check *)

MaxAuthEvents == 2

\* a role is a (user id, role) pair, so the rows of one user form a set
Roles == {"admin", "user", "moderator"}

\* data?.some((role) => role.role === "admin") || false, on a failed query
\* data is null
HasAdminAny(ok, rows) == ok /\ rows # {}
HasAdmin(ok, rows) == ok /\ "admin" \in rows

\* Navbar.checkAdminRole: a role query returns
NavCheckAdminRole(ok) ==
  /\ navChecks > 0
  /\ navChecks' = navChecks - 1
  /\ navIsAdmin' = HasAdmin(ok, userRoleRows)
  /\ UNCHANGED <<session, userRoleRows, dashIsAdmin, dashIsLoading, dashChecks,
                 route, authEvents, notRoleVars>>

\* .eq("role", "admin").maybeSingle(): the admin row, or null (also on error)
AdminRow(ok, rows) == IF ok /\ "admin" \in rows THEN {"admin"} ELSE {}

\* AdminDashboard.checkAdminRole: the role query returns
DashCheckAdminRole(ok) ==
  /\ dashChecks > 0
  /\ route = "admin"
  /\ dashChecks' = dashChecks - 1
  /\ IF AdminRow(ok, userRoleRows) = {}
     THEN route' = "dashboard" /\ UNCHANGED dashIsAdmin
     ELSE dashIsAdmin' = TRUE /\ UNCHANGED route
  /\ dashIsLoading' = FALSE
  /\ UNCHANGED <<session, userRoleRows, navIsAdmin, navChecks, authEvents,
                 notRoleVars>>

\* onAuthStateChange in both components: the user signs in again (token
\* refresh, another tab) or signs out
AuthStateChange(signedIn) ==
  /\ route # "none"
  /\ authEvents < MaxAuthEvents
  /\ authEvents' = authEvents + 1
  /\ session' = signedIn
  /\ IF signedIn
     THEN navChecks' = navChecks + 1 /\ UNCHANGED navIsAdmin
     ELSE navIsAdmin' = FALSE /\ UNCHANGED navChecks
  /\ route' = IF route = "admin" /\ ~signedIn THEN "auth" ELSE route
  /\ UNCHANGED <<userRoleRows, dashIsAdmin, dashIsLoading, dashChecks,
                 notRoleVars>>

\* another administrator changes the user's rows (handleDeactivateUser
\* deletes them all)
ChangeRoles(rows) ==
  /\ route # "none"
  /\ authEvents < MaxAuthEvents
  /\ authEvents' = authEvents + 1
  /\ rows # userRoleRows
  /\ userRoleRows' = rows
  /\ UNCHANGED <<session, navIsAdmin, navChecks, dashIsAdmin, dashIsLoading,
                 dashChecks, route, notRoleVars>>

\* if (isLoading) ...; if (!isAdmin) return null; the dashboard content
DashboardContentRendered == route = "admin" /\ ~dashIsLoading /\ dashIsAdmin

RoleNext ==
  \/ \E ok \in BOOLEAN : NavCheckAdminRole(ok)
  \/ \E ok \in BOOLEAN : DashCheckAdminRole(ok)
  \/ \E signedIn \in BOOLEAN : AuthStateChange(signedIn)
  \/ \E rows \in SUBSET Roles : ChangeRoles(rows)

\* /admin has been opened and getSession has returned in both components
RoleInit ==
  /\ session \in BOOLEAN
  /\ userRoleRows \in SUBSET Roles
  /\ navIsAdmin = FALSE
  /\ navChecks = IF session THEN 1 ELSE 0
  /\ dashIsAdmin = FALSE
  /\ dashIsLoading = TRUE
  /\ dashChecks = IF session THEN 1 ELSE 0
  /\ route = IF session THEN "admin" ELSE "auth"
  /\ authEvents = 0

\* no page with a role check is open
RoleIdle ==
  /\ session = FALSE
  /\ userRoleRows = {}
  /\ navIsAdmin = FALSE
  /\ navChecks = 0
  /\ dashIsAdmin = FALSE
  /\ dashIsLoading = TRUE
  /\ dashChecks = 0
  /\ route = "none"
  /\ authEvents = 0

-----------------------------------------------------------------------------
(* SpotDetail: the reviews of the displayed spot *)

MaxRefresh == 2

Reviewers == {"u1", "u2"}

NoFetch == [inFlight |-> FALSE, session |-> "null"]

\* supabase.auth.getSession().then(... setSession(session))
GetSessionResolve ==
  /\ rvSpot # "none"
  /\ ~rvSessionLoaded
  /\ rvSessionLoaded' = TRUE
  /\ rvSession' = IF rvUser = "none" THEN "null" ELSE rvUser
  /\ UNCHANGED <<rvUser, rvSpot, storedReviews, reviewFetch, reviewOutcome,
                 reviews, userHasReviewed, reviewRefreshTrigger, notReviewVars>>

\* fetchSpot returns; with a spot set, the effect on [spot,
\* reviewRefreshTrigger] calls the fetchReviews of that render, whose
\* closure holds the session of that render
FetchSpotResolve(ok) ==
  /\ rvSpot = "loading"
  /\ IF ok
     THEN /\ rvSpot' = "loaded"
          /\ reviewFetch' = [inFlight |-> TRUE, session |-> rvSession]
     ELSE /\ rvSpot' = "failed"
          /\ UNCHANGED reviewFetch
  /\ UNCHANGED <<rvUser, rvSession, rvSessionLoaded, storedReviews,
                 reviewOutcome, reviews, userHasReviewed, reviewRefreshTrigger,
                 notReviewVars>>

\* enrichedReviews.some(r => r.user_id === session?.user?.id)
SomeBy(rows, user) == user \in rows

\* fetchReviews: the reviews query (and the profile lookups) return
FetchReviewsResolve(ok) ==
  /\ reviewFetch.inFlight
  /\ reviewFetch' = NoFetch
  /\ IF ~ok
     THEN /\ reviewOutcome' = "error"
          /\ UNCHANGED <<reviews, userHasReviewed>>
     ELSE /\ reviewOutcome' = "ok"
          /\ reviews' = storedReviews
          /\ userHasReviewed' = SomeBy(storedReviews, reviewFetch.session)
  /\ UNCHANGED <<rvUser, rvSession, rvSessionLoaded, rvSpot, storedReviews,
                 reviewRefreshTrigger, notReviewVars>>

\* the review form stores a review of the signed-in user and calls
\* onReviewSubmitted: the trigger changes and the effect fetches again
ReviewSubmitted ==
  /\ rvSpot = "loaded"
  /\ rvSession \in Reviewers
  /\ ~userHasReviewed
  /\ ~reviewFetch.inFlight
  /\ reviewRefreshTrigger < MaxRefresh
  /\ reviewRefreshTrigger' = reviewRefreshTrigger + 1
  /\ storedReviews' = storedReviews \cup {rvSession}
  /\ reviewFetch' = [inFlight |-> TRUE, session |-> rvSession]
  /\ UNCHANGED <<rvUser, rvSession, rvSessionLoaded, rvSpot, reviewOutcome,
                 reviews, userHasReviewed, notReviewVars>>

\* another user's review of the spot is stored
OtherReview(user) ==
  /\ rvSpot # "none"
  /\ user # rvUser
  /\ user \notin storedReviews
  /\ storedReviews' = storedReviews \cup {user}
  /\ UNCHANGED <<rvUser, rvSession, rvSessionLoaded, rvSpot, reviewFetch,
                 reviewOutcome, reviews, userHasReviewed, reviewRefreshTrigger,
                 notReviewVars>>

ReviewNext ==
  \/ GetSessionResolve
  \/ \E ok \in BOOLEAN : FetchSpotResolve(ok)
  \/ \E ok \in BOOLEAN : FetchReviewsResolve(ok)
  \/ ReviewSubmitted
  \/ \E user \in Reviewers : OtherReview(user)

\* the spot page has been opened: the session load and fetchSpot are pending
ReviewInit ==
  /\ rvUser \in Reviewers \cup {"none"}
  /\ rvSession = "null"
  /\ rvSessionLoaded = FALSE
  /\ rvSpot = "loading"
  /\ storedReviews \in SUBSET Reviewers
  /\ reviewFetch = NoFetch
  /\ reviewOutcome = "none"
  /\ reviews = {}
  /\ userHasReviewed = FALSE
  /\ reviewRefreshTrigger = 0

\* no spot page is open
ReviewIdle ==
  /\ rvUser = "none"
  /\ rvSession = "null"
  /\ rvSessionLoaded = FALSE
  /\ rvSpot = "none"
  /\ storedReviews = {}
  /\ reviewFetch = NoFetch
  /\ reviewOutcome = "none"
  /\ reviews = {}
  /\ userHasReviewed = FALSE
  /\ reviewRefreshTrigger = 0

-----------------------------------------------------------------------------
(* UserManagement: the user list and Deactivate *)

MaxRoleRows == 3

ListedUsers == {"u1", "u2"}

\* the rows handle_new_user and an administrator can have inserted
RoleRows == [user_id : ListedUsers, role : {"user", "admin"}]

\* userRoles.find(r => r.user_id === userId)?.role || "user"
getUserRole(rows, userId) ==
  IF \E i \in 1..Len(rows) : rows[i].user_id = userId
  THEN rows[CHOOSE i \in 1..Len(rows) :
              /\ rows[i].user_id = userId
              /\ \A j \in 1..(i - 1) : rows[j].user_id # userId].role
  ELSE "user"

\* disabled={getUserRole(profile.id) === "admin"} of Deactivate
DeactivateDisabled(userId) == getUserRole(userRoles, userId) = "admin"

HasAdminRow(rows, userId) ==
  \E i \in 1..Len(rows) : rows[i] = [user_id |-> userId, role |-> "admin"]

\* fetchUsers: the user_roles query returns
FetchUsers(ok) ==
  /\ usersLoading
  /\ userRoles' = IF ok THEN storedRoles ELSE userRoles
  /\ usersLoading' = FALSE
  /\ UNCHANGED <<storedRoles, deactivateToast, notDeactVars>>

\* handleDeactivateUser: delete().eq("user_id", userId), then fetchUsers
HandleDeactivateUser(userId, ok) ==
  /\ ~usersLoading
  /\ ~DeactivateDisabled(userId)
  /\ IF ok
     THEN /\ storedRoles' = SelectSeq(storedRoles, LAMBDA r : r.user_id # userId)
          /\ deactivateToast' = "deactivated"
          /\ usersLoading' = TRUE
     ELSE /\ deactivateToast' = "failed"
          /\ UNCHANGED <<storedRoles, usersLoading>>
  /\ UNCHANGED <<userRoles, notDeactVars>>

DeactNext ==
  \/ \E ok \in BOOLEAN : FetchUsers(ok)
  \/ \E userId \in ListedUsers, ok \in BOOLEAN : HandleDeactivateUser(userId, ok)

\* the screen has been opened: fetchUsers is running
DeactInit ==
  /\ \E n \in 0..MaxRoleRows : \E rows \in [1..n -> RoleRows] :
       /\ \A i, j \in 1..n : rows[i] = rows[j] => i = j
       /\ storedRoles = rows
  /\ userRoles = <<>>
  /\ usersLoading = TRUE
  /\ deactivateToast = "none"

\* the screen is not open
DeactIdle ==
  /\ storedRoles = <<>>
  /\ userRoles = <<>>
  /\ usersLoading = FALSE
  /\ deactivateToast = "none"

\* C26: Deactivate is disabled for every user who has a user_roles row with
\* role "admin", for any number and order of role rows per user, so
\* handleDeactivateUser never removes an admin role row.
C26_AdminNeverDeactivated ==
  /\ [](\A userId \in ListedUsers :
          (userRoles = storedRoles /\ HasAdminRow(storedRoles, userId))
            => DeactivateDisabled(userId))
  /\ [][\A userId \in ListedUsers :
          HasAdminRow(storedRoles, userId) => HasAdminRow(storedRoles', userId)]_vars

-----------------------------------------------------------------------------
(* Claims about parseCSV *)

HeaderNames == {Trim(csvFile.header[i]) : i \in 1..Len(csvFile.header)}

\* the trimmed text of column c of a row ("" when the row is shorter)
FieldOf(row, c) == IF c <= Len(row) THEN Trim(row[c]) ELSE ""

Bracketed(t) == StartsWith(t, "[") /\ EndsWith(t, "]")

IsJsonArray(t) == Bracketed(t) /\ JsonParseArray(t).ok

\* the rows of the file without the blank lines at its end
RECURSIVE DropBlankTail(_)
DropBlankTail(rows) ==
  IF Len(rows) > 0 /\ Trim(Join(rows[Len(rows)], ";")) = ""
  THEN DropBlankTail(SubSeq(rows, 1, Len(rows) - 1))
  ELSE rows

ExampleFile(file) ==
  /\ file.header = <<"name", "category">>
  /\ file.rows = << <<"Spot A", "[\"Nature\",\"Adventure\"]">> >>

ExampleRecords ==
  << [name |-> JStr("Spot A"), category |-> JList(<<"Nature", "Adventure">>)] >>

\* C8 as stated: one record per data row, keyed by the trimmed header names;
\* a [...] field holding valid JSON is an array and every other non-empty
\* field is its trimmed text.
C8_ParseCsvAsStated ==
  csvParsed =>
    /\ Len(csvData) = Len(csvFile.rows)
    /\ \A r \in 1..Min(Len(csvData), Len(csvFile.rows)) :
         /\ DOMAIN csvData[r] = HeaderNames
         /\ \A c \in 1..Len(csvFile.header) :
              LET t == FieldOf(csvFile.rows[r], c)
                  v == csvData[r][Trim(csvFile.header[c])]
              IN IF IsJsonArray(t) THEN v = JList(JsonParseArray(t).l)
                 ELSE t # "" => v = JStr(t)
    /\ ExampleFile(csvFile) => csvData = ExampleRecords

\* C8: parseCSV returns one record per line that follows the header in the
\* text with leading and trailing white space removed (blank lines at the end
\* give no record), keyed by the trimmed header names; a field that is empty,
\* blank, missing or the two-character text "" is null, a [...] field holding
\* valid JSON is an array, every other field is its trimmed text.
C8_ParseCsv ==
  csvParsed =>
    /\ Len(csvData) = Len(DropBlankTail(csvFile.rows))
    /\ \A r \in 1..Len(csvData) :
         /\ DOMAIN csvData[r] = HeaderNames
         /\ \A c \in 1..Len(csvFile.header) :
              LET t == FieldOf(csvFile.rows[r], c)
                  v == csvData[r][Trim(csvFile.header[c])]
              IN v = IF t = "" \/ t = "\"\"" THEN JNull
                     ELSE IF IsJsonArray(t) THEN JList(JsonParseArray(t).l)
                     ELSE JStr(t)
    /\ ExampleFile(csvFile) => csvData = ExampleRecords

C8_Witness ==
  /\ csvParsed
  /\ ExampleFile(csvFile)
  /\ csvData = ExampleRecords

-----------------------------------------------------------------------------
(* Claims about the batched import *)

RECURSIVE FailedSize(_)
FailedSize(log) ==
  IF Len(log) = 0 THEN 0
  ELSE (IF log[Len(log)].error THEN log[Len(log)].size ELSE 0)
       + FailedSize(SubSeq(log, 1, Len(log) - 1))

FailedBatches == {k \in 1..Len(insertLog) : insertLog[k].error}

HealthyRows ==
  {r \in 1..importRows :
     \E k \in 1..Len(insertLog) :
       /\ ~insertLog[k].error
       /\ insertLog[k].first <= r
       /\ r < insertLog[k].first + insertLog[k].size}

\* requests were issued for consecutive batches of at most 50 records
ConsecutiveBatches ==
  \A k \in 1..Len(insertLog) :
    /\ insertLog[k].first = (k - 1) * batchSize + 1
    /\ insertLog[k].size = Min(batchSize, importRows - (k - 1) * batchSize)
    /\ insertLog[k].size > 0

ImportReport ==
  /\ ConsecutiveBatches
  /\ persistedRows = HealthyRows
  /\ errorCount = FailedSize(insertLog)
  /\ importPc = "done" =>
       /\ Len(insertLog) * batchSize >= importRows
       /\ successCount + errorCount = importRows
       /\ importToast = "complete"

\* C9 as stated: every batch is attempted, the counts add up to n, and a
\* 120-row file with one poisoned batch reports 70 imported and 50 failed.
C9_BatchImportAsStated ==
  /\ ImportReport
  /\ (importPc = "done" /\ importRows = 120 /\ Cardinality(FailedBatches) = 1)
     => successCount = 70 /\ errorCount = 50

\* C9: inserts go out in consecutive batches of at most 50 records, every
\* batch is attempted whatever failed before, successCount + errorCount = n
\* with errorCount the total size of the failed batches, and the rows of the
\* healthy batches are persisted; a 120-row file with one poisoned batch
\* reports 70/50 when the batch is the first or second, 100/20 when it is
\* the third.
C9_BatchImport ==
  /\ ImportReport
  /\ (importPc = "done" /\ importRows = 120 /\ Cardinality(FailedBatches) = 1)
     => IF FailedBatches \subseteq {1, 2}
        THEN successCount = 70 /\ errorCount = 50
        ELSE successCount = 100 /\ errorCount = 20

C9_Witness ==
  /\ importPc = "done" /\ importRows = 120
  /\ FailedBatches = {1}
  /\ Len(insertLog) = 3
  /\ successCount = 70 /\ errorCount = 50
  /\ Cardinality(persistedRows) = 70

-----------------------------------------------------------------------------
(* Claims about the onboarding wizard *)

StepMoves ==
  /\ [][step' > step => (step' = step + 1 /\ canProceed)]_vars
  /\ [][step' < step => step' = step - 1]_vars

\* C10 as stated: the step stays in 1..10, goes up by 1 only when canProceed
\* holds, and can go down by 1 from any step above 1.
C10_WizardStepsAsStated ==
  /\ [](step \in 1..totalSteps)
  /\ StepMoves
  /\ []((wizOpen /\ step > 1) => ENABLED Back)

\* C10: the step stays in 1..10, goes up by 1 only when canProceed holds, and
\* from any step above 1 can go down by 1 whether or not the step is valid,
\* unless the final save request is in flight, when Back is disabled.
C10_WizardSteps ==
  /\ [](step \in 1..totalSteps)
  /\ StepMoves
  /\ []((wizOpen /\ step > 1 /\ ~wizLoading) => ENABLED Back)
  /\ []((wizOpen /\ wizLoading) => (~ENABLED Back /\ step = totalSteps /\ canProceed))

C10_Witness ==
  /\ wizOpen /\ step > 1 /\ ~canProceed /\ ~wizLoading
  /\ ENABLED Back

-----------------------------------------------------------------------------
(* Claims about what the wizard stores *)

\* C11: the wizard writes the stored profile only through the final-step
\* submit: the profile changes only when an update request sent at step 10
\* succeeds, and then it becomes, in that one step, the preferences record
\* accumulated when Complete Setup was pressed together with
\* onboarding_complete = TRUE; abandoning at any step, any edit or step
\* change, and a failed submit leave the stored profile unchanged.
C11_WritesOnlyThroughSubmit ==
  /\ [][(~wizPayload.sent /\ wizPayload'.sent) =>
          /\ step = totalSteps
          /\ wizPayload'.user_preferences = wizPreferences]_vars
  /\ [][profile' # profile =>
          /\ wizPayload.sent
          /\ wizToast' = "saved"
          /\ profile' = [user_preferences |-> wizPayload.user_preferences,
                         onboarding_complete |-> TRUE]]_vars
  /\ [][(wizPayload.sent /\ ~wizPayload'.sent /\ wizToast' = "failed") =>
          profile' = profile]_vars
  /\ []((~wizPayload.sent /\ wizToast = "none") => profile = NoProfile)

\* a submit has succeeded and stored a record that differs from the initial one
C11_Witness ==
  /\ wizVariant \in WizardVariants
  /\ profile.onboarding_complete
  /\ wizToast = "saved"
  /\ profile.user_preferences = wizPreferences
  /\ wizPreferences # InitialPreferences(wizVariant)

-----------------------------------------------------------------------------
(* Claims about client-side validation *)

ValidNewUser(u) ==
  /\ u.email # "" /\ u.password # "" /\ u.firstName # "" /\ u.lastName # ""
  /\ u.password = u.confirmPassword
  /\ Len(u.middleInitial) <= 1

\* the stored tables a validated operation writes to
Stored == <<itineraries, persistedRows, accounts>>

\* requests issued so far or in flight
Requests ==
  <<selectionRequests, insertLog, createRequest,
    [c \in Tabs |-> tab[c].pc # "idle"]>>

\* C14: a validation failure aborts the operation before any request is
\* sent and leaves stored state unchanged.  A step that reports a failed
\* validation (create-user: required field, password mismatch, middle
\* initial; empty selection; blank new itinerary name; import with no file
\* or type, or with no data rows) changes neither the stored tables nor the
\* requests sent; and a request is sent only with valid input.
C14_ValidationAborts ==
  /\ [][(userToast' # userToast
           /\ userToast' \in {"required", "mismatch", "initial"})
          => (Stored' = Stored /\ Requests' = Requests /\ ~isCreating')]_vars
  /\ [][(~createRequest.sent /\ createRequest'.sent)
          => (ValidNewUser(newUser) /\ createRequest'.body = newUser)]_vars
  /\ [][(\E ok \in BOOLEAN : SelectionCreateItinerary({}, ok))
          => (Stored' = Stored /\ Requests' = Requests
              /\ selectionToast' = "select-one")]_vars
  /\ [][selectionRequests' # selectionRequests
          => selectionToast' \in {"created", "failed"}]_vars
  /\ [][\A c \in Tabs :
          (tab'[c] # tab[c] /\ tab'[c].toast = "enter-name")
          => (Stored' = Stored /\ Requests' = Requests /\ ~tab'[c].loading)]_vars
  /\ [][\A c \in Tabs :
          (tab[c].pc = "idle" /\ tab'[c].pc = "d_insert")
          => Trim(tab'[c].name) # ""]_vars
  /\ [][(importToast' # importToast /\ importToast' \in {"select", "nodata"})
          => (Stored' = Stored /\ Requests' = Requests /\ ~importing')]_vars
  /\ [][insertLog' # insertLog
          => (selectedType \in ImportTypes /\ importRows > 0)]_vars

\* the create-user form was submitted with passwords that differ: the
\* mismatch is reported, nothing is in flight and no account exists
C14_Witness ==
  /\ isCreateDialogOpen
  /\ userToast = "mismatch"
  /\ newUser.password # newUser.confirmPassword
  /\ ~ValidNewUser(newUser)
  /\ ~createRequest.sent /\ ~isCreating
  /\ accounts = {}

-----------------------------------------------------------------------------
(* Claims about the admin role check *)

\* C15: when a role check completes, the admin flag of the component is
\* true iff user_roles holds a row of the user with role "admin", whatever
\* other rows the user has; a failed query yields not-admin; the dashboard
\* content is rendered only when AdminDashboard.isAdmin is true, which it
\* becomes only through a check that found the admin row.
C15_AdminFlag ==
  /\ [][NavCheckAdminRole(TRUE) => navIsAdmin' = ("admin" \in userRoleRows)]_vars
  /\ [][(NavCheckAdminRole(FALSE) /\ ~NavCheckAdminRole(TRUE))
          => ~navIsAdmin']_vars
  /\ [][DashCheckAdminRole(TRUE)
          => (dashIsAdmin' = dashIsAdmin \/ "admin" \in userRoleRows)]_vars
  /\ [][(DashCheckAdminRole(TRUE) /\ ~dashIsAdmin)
          => dashIsAdmin' = ("admin" \in userRoleRows)]_vars
  /\ [][(DashCheckAdminRole(FALSE) /\ ~DashCheckAdminRole(TRUE))
          => dashIsAdmin' = dashIsAdmin]_vars
  /\ [][(dashIsAdmin' /\ ~dashIsAdmin) => "admin" \in userRoleRows]_vars
  /\ [](DashboardContentRendered => dashIsAdmin)
  /\ []((route = "admin" /\ ~dashIsLoading) => dashIsAdmin)

\* both checks have completed for a user who holds the admin row next to
\* another role: both flags are true and the dashboard is rendered
C15_Witness ==
  /\ session /\ authEvents = 0
  /\ navChecks = 0 /\ dashChecks = 0
  /\ userRoleRows = {"admin", "user"}
  /\ navIsAdmin /\ dashIsAdmin
  /\ DashboardContentRendered

-----------------------------------------------------------------------------
(* Claims about concurrent and successive adds to an itinerary *)

Writing(c) == tab[c].pc \in {"d_update", "s_update"}

\* the update request of tab c has been accepted in this step
WriteAccepted(c) ==
  Writing(c) /\ tab'[c].pc = "idle" /\ tab'[c].toast = "added"

\* the list tab c read: what it wrote, less the appended entry
ReadList(c) == SubSeq(tab[c].updatedSpots, 1, Len(tab[c].updatedSpots) - 1)

\* tabs c and d have both added, to the same itinerary, different entities
\* to the same list they had read, and both have reported success
RacedAdds(c, d) ==
  /\ c # d
  /\ tab[c].pc = "idle" /\ tab[d].pc = "idle"
  /\ tab[c].toast = "added" /\ tab[d].toast = "added"
  /\ tab[c].itineraryId = tab[d].itineraryId
  /\ tab[c].item # tab[d].item
  /\ ReadList(c) = ReadList(d)
  /\ RowsWithId(tab[c].itineraryId) # {}

\* tab c's add has been accepted and tab d, which read the same list of the
\* same itinerary for a different entity, is about to write
LatterOfRace(c, d) ==
  /\ c # d
  /\ tab[c].pc = "idle" /\ tab[c].toast = "added"
  /\ Writing(d)
  /\ tab[c].itineraryId = tab[d].itineraryId
  /\ tab[c].item # tab[d].item
  /\ ReadList(c) = ReadList(d)
  /\ RowsWithId(tab[d].itineraryId) # {}

\* C16: add-to-itinerary is a read-modify-write with last-write-wins.  An
\* accepted update replaces the stored list by the list the writer computed
\* from its own read, whatever the stored list has become since, and
\* reports success; so when two adds of different entities to the same
\* itinerary both read before either writes and both are accepted, the
\* stored list is the later writer's and holds exactly one of the two
\* entities.
C16_LastWriteWins ==
  /\ [][\A c \in Tabs :
          WriteAccepted(c) =>
            /\ RowsWithId(tab[c].itineraryId) # {}
                 => itineraries'[RowOf(tab[c].itineraryId)].spots
                      = tab[c].updatedSpots
            /\ ~tab'[c].loading]_vars
  /\ [][\A c, d \in Tabs :
          (LatterOfRace(c, d) /\ WriteAccepted(d)) =>
            LET stored == itineraries'[RowOf(tab[d].itineraryId)].spots
            IN /\ stored = tab[d].updatedSpots
               /\ tab[d].item \in EntryIds(stored)
               /\ tab[c].item \notin EntryIds(stored)
               /\ tab'[c].toast = "added" /\ tab'[d].toast = "added"]_vars

\* both adds were accepted and the entity of one of them is lost
C16_Witness ==
  \E c, d \in Tabs :
    /\ RacedAdds(c, d)
    /\ itineraries[RowOf(tab[c].itineraryId)].spots = tab[d].updatedSpots
    /\ tab[c].item \notin EntryIds(itineraries[RowOf(tab[c].itineraryId)].spots)
    /\ tab[d].item \in EntryIds(itineraries[RowOf(tab[c].itineraryId)].spots)

\* list new is list old with one entry for entity e appended
AppendsOne(old, new, e) ==
  /\ Len(new) = Len(old) + 1
  /\ SubSeq(new, 1, Len(old)) = old
  /\ new[Len(new)].id = e

\* the rows other than those with the given id, and the number and identity
\* of all rows, are the same before and after the step
OnlyListOf(id) ==
  /\ Len(itineraries') = Len(itineraries)
  /\ \A i \in 1..Len(itineraries) :
       /\ itineraries'[i].id = itineraries[i].id
       /\ itineraries'[i].name = itineraries[i].name
       /\ itineraries[i].id # id => itineraries'[i] = itineraries[i]

\* C17 as stated: a successful add to an existing itinerary appends exactly
\* one entry at the end of that itinerary's stored list, every earlier
\* entry keeping its content and position, and modifies no other itinerary.
C17_AppendOnlyAsStated ==
  [][\A c \in Tabs :
       WriteAccepted(c) =>
         /\ OnlyListOf(tab[c].itineraryId)
         /\ \A i \in RowsWithId(tab[c].itineraryId) :
              AppendsOne(itineraries[i].spots, itineraries'[i].spots,
                         tab[c].item)]_vars

\* C17: a successful add to an existing itinerary changes only that
\* itinerary's stored list, which becomes the list the add had read followed
\* by exactly one new entry; when the stored list has not been written
\* between the add's read and its write, that is an append of one entry at
\* the end, every earlier entry keeping its content and position.
C17_AppendOnly ==
  [][\A c \in Tabs :
       WriteAccepted(c) =>
         /\ OnlyListOf(tab[c].itineraryId)
         /\ \A i \in RowsWithId(tab[c].itineraryId) :
              /\ AppendsOne(ReadList(c), itineraries'[i].spots, tab[c].item)
              /\ itineraries[i].spots = ReadList(c) =>
                   AppendsOne(itineraries[i].spots, itineraries'[i].spots,
                              tab[c].item)]_vars

\* an add to a non-empty list has been accepted and the list now ends with
\* the new entry after the earlier one
C17_Witness ==
  \E c \in Tabs :
    /\ tab[c].pc = "idle" /\ tab[c].toast = "added"
    /\ Len(tab[c].updatedSpots) = 2
    /\ \E i \in RowsWithId(tab[c].itineraryId) :
         /\ itineraries[i].spots = tab[c].updatedSpots
         /\ itineraries[i].spots[2].id = tab[c].item
         /\ itineraries[i].spots[1].id # tab[c].item

\* C18: an itinerary entry is a copy taken at add time.  The entry an
\* accepted add stores carries the entity data the adding page held; an
\* edit or deletion of the entity in the catalog leaves every stored
\* itinerary list unchanged; and no itinerary operation writes to the
\* catalog.
C18_EntriesAreCopies ==
  /\ [][catalog' # catalog => itineraries' = itineraries]_vars
  /\ [][(itineraries' # itineraries \/ tab' # tab \/ started' # started)
          => catalog' = catalog]_vars
  /\ [][\A c \in Tabs :
          WriteAccepted(c) =>
            \A i \in RowsWithId(tab[c].itineraryId) :
              LET spots == itineraries'[i].spots
              IN /\ Len(spots) > 0
                 /\ spots[Len(spots)].id = tab[c].item
                 /\ spots[Len(spots)].name = tab[c].itemName
                 /\ tab[c].itemName \in {"v1", "v2"}]_vars

\* an entry added by a tab keeps the data copied at add time although the
\* entity has since been edited or deleted in the catalog
C18_Witness ==
  \E c \in Tabs :
    /\ tab[c].pc = "idle" /\ tab[c].toast = "added"
    /\ tab[c].itemName = "v1"
    /\ catalog[tab[c].item] \in {"v2", "deleted"}
    /\ \E i \in RowsWithId(tab[c].itineraryId) :
         \E k \in 1..Len(itineraries[i].spots) :
           /\ itineraries[i].spots[k].id = tab[c].item
           /\ itineraries[i].spots[k].name = "v1"

-----------------------------------------------------------------------------
(* Claims about the review pre-check *)

\* C19: whenever the stored reviews of the displayed spot include one by
\* the signed-in user, userHasReviewed is true once the session load and
\* the review fetch have both completed, in whichever order they complete.
C19_PreCheckAccurate ==
  ( /\ rvSessionLoaded /\ rvSession \in Reviewers
    /\ rvSpot = "loaded" /\ ~reviewFetch.inFlight /\ reviewOutcome = "ok"
    /\ reviews = storedReviews
    /\ rvSession \in storedReviews )
  => userHasReviewed

-----------------------------------------------------------------------------
(* Claims about create mode of the add dialog *)

\* the dialog's last add was in create mode, its insert was accepted and a
\* later step failed
CreateFailedAfterInsert(c) ==
  /\ tab[c].pc = "idle" /\ tab[c].toast = "failed"
  /\ tab[c].name # "" /\ tab[c].itineraryId # 0

\* C27: AddToItineraryDialog in create mode is all-or-nothing: if a step
\* after the insert of the new itinerary fails (reading it back or updating
\* its list), no new itinerary remains in storage.
C27_CreateAllOrNothing ==
  \A c \in Tabs :
    CreateFailedAfterInsert(c) => RowsWithId(tab[c].itineraryId) = {}

-----------------------------------------------------------------------------
(* Claims about the role flag under auth-state events *)

\* C25: Navbar.isAdmin is false whenever there is no session, under any
\* ordering of auth-state events and role-check completions; a role check
\* started before a sign-out never turns the flag on afterwards.
C25_NoSessionNoAdmin == (route # "none" /\ ~session) => ~navIsAdmin

-----------------------------------------------------------------------------
(* Claims about the busy flags *)

\* C29: every operation that sets a busy flag (the import's importing, the
\* add dialog's and the spot page's loading, the modals' loading and
\* fetching flags, the wizard's loading, isCreating, the feed's loading)
\* eventually clears it on every exit path once its requests have returned.
C29_BusyFlagsClear ==
  /\ \A c \in Tabs : tab[c].loading ~> ~tab[c].loading
  /\ importing ~> ~importing
  /\ isCreating ~> ~isCreating
  /\ recLoading ~> ~recLoading
  /\ wizLoading ~> ~wizLoading
  /\ modalLoading ~> ~modalLoading
  /\ fetchingSpots ~> ~fetchingSpots

\* the add dialog has left through its duplicate rejection with the flag
\* cleared
C29_Witness ==
  \E c \in Tabs :
    tab[c].pc = "idle" /\ tab[c].toast = "already" /\ ~tab[c].loading

-----------------------------------------------------------------------------
(* Claims about the stored place preference *)

\* a tourist spot that is, or is not, a hidden gem
GemSpot(hidden) == [is_hidden_gem |-> JBool(hidden)]

\* both spot scorers give some spot a place-preference bonus for the value
PlaceRecognised(value) ==
  LET prefs == [placePreference |-> JStr(value)]
  IN /\ \E hidden \in BOOLEAN : FeedPlace(prefs, GemSpot(hidden)) > 0
     /\ \E hidden \in BOOLEAN : SpotPlace(prefs, GemSpot(hidden)) > 0

\* C30: every placePreference value that either wizard variant can store
\* is one the spot scorers recognise: for each stored value there is a
\* tourist spot that receives a place-preference bonus.
C30_PlacePreferenceRecognised ==
  profile.onboarding_complete =>
    PlaceRecognised(profile.user_preferences.placePreference)

-----------------------------------------------------------------------------
(* Claims about the steps the wizard has passed *)

\* the fields canProceed requires: all but the two switches
RequiredFilled ==
  \A field \in WizFields(wizVariant) :
    IF field \in MultiSelectFields(wizVariant)
    THEN Len(wizPreferences[field]) > 0
    ELSE wizPreferences[field] # ""

SubmitPossible == wizOpen /\ step = totalSteps /\ ~ForwardDisabled

\* C23: in both wizard variants, with the wizard at step s the validity
\* predicate of every step below s holds for the current preferences; hence
\* whenever submit is possible at step 10 every required field is non-empty.
C23_PassedStepsValid ==
  wizVariant \in WizardVariants =>
    /\ \A k \in 1..(step - 1) : canProceedAt(wizVariant, k, wizPreferences)
    /\ SubmitPossible => RequiredFilled

\* submit is possible after a multi-select of an earlier step had been
\* chosen with more than one option
C23_Witness ==
  /\ SubmitPossible
  /\ \E field \in MultiSelectFields(wizVariant) : Len(wizPreferences[field]) > 1

-----------------------------------------------------------------------------
(* Specifications *)

Init == ItinInit /\ RecIdle /\ CsvIdle /\ ImportIdle /\ WizIdle /\ UserIdle /\ RoleIdle /\ CatalogInit /\ ReviewIdle /\ CleanIdle /\ PickIdle /\ DeactIdle

ScoreInit == ItinIdle /\ RecInit /\ CsvIdle /\ ImportIdle /\ WizIdle /\ UserIdle /\ RoleIdle /\ CatalogInit /\ ReviewIdle /\ CleanIdle /\ PickIdle /\ DeactIdle

SpecScore == ScoreInit /\ [][RecNext]_vars

CsvSpecInit == ItinIdle /\ RecIdle /\ CsvInit /\ ImportIdle /\ WizIdle /\ UserIdle /\ RoleIdle /\ CatalogInit /\ ReviewIdle /\ CleanIdle /\ PickIdle /\ DeactIdle

SpecCsv == CsvSpecInit /\ [][ParseCsvFile]_vars

ImportSpecInit == ItinIdle /\ RecIdle /\ CsvIdle /\ ImportInit /\ WizIdle /\ UserIdle /\ RoleIdle /\ CatalogInit /\ ReviewIdle /\ CleanIdle /\ PickIdle /\ DeactIdle

SpecImport == ImportSpecInit /\ [][ImportNext]_vars

WizSpecInit == ItinIdle /\ RecIdle /\ CsvIdle /\ ImportIdle /\ WizInit /\ UserIdle /\ RoleIdle /\ CatalogInit /\ ReviewIdle /\ CleanIdle /\ PickIdle /\ DeactIdle

SpecWizard == WizSpecInit /\ [][WizNext]_vars


UserSpecInit ==
  /\ ItinIdle /\ RecIdle /\ CsvIdle /\ ImportIdle /\ WizIdle /\ UserInit
  /\ RoleIdle /\ CatalogInit /\ ReviewIdle /\ CleanIdle /\ PickIdle /\ DeactIdle

RoleSpecInit ==
  /\ ItinIdle /\ RecIdle /\ CsvIdle /\ ImportIdle /\ WizIdle /\ UserIdle
  /\ RoleInit /\ CatalogInit /\ ReviewIdle /\ CleanIdle /\ PickIdle /\ DeactIdle

ReviewSpecInit ==
  /\ ItinIdle /\ RecIdle /\ CsvIdle /\ ImportIdle /\ WizIdle /\ UserIdle
  /\ RoleIdle /\ CatalogInit /\ ReviewInit /\ CleanIdle /\ PickIdle /\ DeactIdle

SpecReviews == ReviewSpecInit /\ [][ReviewNext]_vars

SpecRoles == RoleSpecInit /\ [][RoleNext]_vars

\* one of the pages with a validated operation is open: the itinerary
\* dialogs and selection modal, the bulk import page, or the create-user
\* dialog
ValidationInit == Init \/ ImportSpecInit \/ UserSpecInit

ValidationNext ==
  \/ ItinNext
  \/ ItinIdle /\ UserIdle /\ ImportNext
  \/ UserNext

SpecValidation == ValidationInit /\ [][ValidationNext]_vars

\* itinerary operations interleaved with catalog administration
SpecCatalog == Init /\ [][ItinNext \/ CatalogNext]_vars

CleanSpecInit ==
  /\ ItinIdle /\ RecIdle /\ CsvIdle /\ ImportIdle /\ WizIdle /\ UserIdle
  /\ RoleIdle /\ CatalogInit /\ ReviewIdle /\ CleanInit /\ PickIdle /\ DeactIdle

SpecClean == CleanSpecInit /\ [][CleanRecord]_vars

PickSpecInit ==
  /\ ItinIdle /\ RecIdle /\ CsvIdle /\ ImportIdle /\ WizIdle /\ UserIdle
  /\ RoleIdle /\ CatalogInit /\ ReviewIdle /\ CleanIdle /\ PickInit /\ DeactIdle

SpecPick == PickSpecInit /\ [][PickNext]_vars

DeactSpecInit ==
  /\ ItinIdle /\ RecIdle /\ CsvIdle /\ ImportIdle /\ WizIdle /\ UserIdle
  /\ RoleIdle /\ CatalogInit /\ ReviewIdle /\ CleanIdle /\ PickIdle /\ DeactInit

SpecDeactivate == DeactSpecInit /\ [][DeactNext]_vars

\* the wizard's preferences with every step answered
FilledPreferences(variant) ==
  [field \in DOMAIN InitialPreferences(variant) |->
     IF field \in FlagFields THEN InitialPreferences(variant)[field]
     ELSE IF field \in MultiSelectFields(variant)
     THEN <<CHOOSE option \in Options(variant, field) : TRUE>>
     ELSE CHOOSE option \in Options(variant, field) : TRUE]

\* the wizard has been answered up to its last step
BusyWizInit ==
  /\ wizVariant \in WizardVariants
  /\ step = totalSteps
  /\ wizLoading = FALSE
  /\ wizPreferences = FilledPreferences(wizVariant)
  /\ wizOpen = TRUE
  /\ wizPayload = NoPayload
  /\ profile = NoProfile
  /\ wizToast = "none"

\* a recommender has been opened over a table of one row, with preferences
\* that are missing, blank, or of a shape its scorer fails on
BusyRecInit ==
  /\ RecInit
  /\ Len(table) = 1
  /\ preferences \in {NoPrefs, BlankPrefs,
                       [BlankPrefs EXCEPT !.travelerType = JList(<<>>),
                                          !.sceneryPreference = JList(<<>>)]}

\* a file has been chosen whose records fill no, one, exactly one, or more
\* than one batch
BusyImportInit ==
  /\ ImportInit
  /\ importRows \in {0, 1, batchSize, batchSize + 1, 2 * batchSize + 1}

\* one page with a busy flag is open: the itinerary dialogs, the create-user
\* dialog, the bulk import page, a recommender, the onboarding wizard at its
\* last step, or a post-onboarding selection modal
BusyInit ==
  \/ Init
  \/ UserSpecInit
  \/ ItinIdle /\ RecIdle /\ CsvIdle /\ BusyImportInit /\ WizIdle /\ UserIdle
       /\ RoleIdle /\ CatalogInit /\ ReviewIdle /\ CleanIdle /\ PickIdle
       /\ DeactIdle
  \/ ItinIdle /\ BusyRecInit /\ CsvIdle /\ ImportIdle /\ WizIdle /\ UserIdle
       /\ RoleIdle /\ CatalogInit /\ ReviewIdle /\ CleanIdle /\ PickIdle
       /\ DeactIdle
  \/ ItinIdle /\ RecIdle /\ CsvIdle /\ ImportIdle /\ BusyWizInit /\ UserIdle
       /\ RoleIdle /\ CatalogInit /\ ReviewIdle /\ CleanIdle /\ PickIdle
       /\ DeactIdle
  \/ PickSpecInit

\* the operations that set a busy flag, with what enables them and with
\* the return of their requests
BusyNext ==
  \/ ItinNext
  \/ UserNext
  \/ ItinIdle /\ UserIdle /\ RecIdle /\ WizIdle /\ PickIdle /\ ImportNext
  \/ RecNext
  \/ Back
  \/ Continue
  \/ HandleSubmit
  \/ \E ok, closes \in BOOLEAN : SubmitResolve(ok, closes)
  \/ PreferencesChange
  \/ \E v \in 1..MaxPrefsVersions, ok \in BOOLEAN, rows \in ResultPool :
       FetchReturn(v, ok, rows)
  \/ HandleAutoSelect
  \/ HandleSave
  \/ \E ok \in BOOLEAN : SaveReturn(ok)

\* every request that has been sent returns
RequestsReturn ==
  /\ \A c \in Tabs :
       /\ WF_vars(\E ok \in BOOLEAN : DialogInsert(c, ok))
       /\ WF_vars(\E ok \in BOOLEAN : DialogFetch(c, ok))
       /\ WF_vars(\E ok \in BOOLEAN : DialogUpdate(c, ok))
       /\ WF_vars(\E ok \in BOOLEAN : DetailFetch(c, ok))
       /\ WF_vars(\E ok \in BOOLEAN : DetailUpdate(c, ok))
       /\ WF_vars(\E ok \in BOOLEAN : DetailInsert(c, ok))
  /\ WF_vars(\E ok \in BOOLEAN : CreateUserResolve(ok))
  /\ WF_vars(\E ok \in BOOLEAN : InsertBatch(ok))
  /\ WF_vars(\E profileOk, ok \in BOOLEAN : FetchPersonalizedSpots(profileOk, ok))
  /\ WF_vars(\E ok \in BOOLEAN : FetchRecommendedSpots(ok))
  /\ WF_vars(\E ok \in BOOLEAN : FetchRecommendedAccommodations(ok))
  /\ WF_vars(\E profileOk, ok \in BOOLEAN : FetchNearbySpots(profileOk, ok))
  /\ WF_vars(\E ok, rev \in BOOLEAN : RecFetchRecommendedAccommodations(ok, rev))
  /\ WF_vars(\E ok, closes \in BOOLEAN : SubmitResolve(ok, closes))
  /\ \A v \in 1..MaxPrefsVersions :
       WF_vars(\E ok \in BOOLEAN, rows \in ResultPool : FetchReturn(v, ok, rows))
  /\ WF_vars(\E ok \in BOOLEAN : SaveReturn(ok))

SpecBusy == BusyInit /\ [][BusyNext]_vars /\ RequestsReturn

Next == ItinNext

Spec == Init /\ [][Next]_vars

====
